---- MODULE Spec2Model ----
(***************************************************************************)
(* A model of jsonctmctree: the block 1-norm estimator                     *)
(* (pyexp/_onenormest.py) and the tree likelihood / expectation passes     *)
(* (common_likelihood.py, expect.py).                                      *)
(*                                                                         *)
(* Arithmetic.  The estimator works on floats that are, for integer        *)
(* operators, exact multiples of 1/n (n the order of the operator).  The   *)
(* model holds every such float as its numerator over the denominator n:   *)
(* the float x is the integer n*x.  Sign matrices (S, S_old), the adjoint  *)
(* product Z, h and the returned unit vector v are integers as they are.   *)
(***************************************************************************)
EXTENDS Integers, Sequences, FiniteSets, TLC

\* ------------------------------------------------------------- bounds
\* An operator has at most MaxNnz nonzero entries, each of them -1 or 1.
MaxNnz == 3
\* The block width t ranges over 0..MaxT and itmax over 1..MaxItmax.
MaxT == 3
MaxItmax == 2
\* Orders of the square operators the estimator is called with.
Orders == {1, 2, 3}
\* Shapes of the non-square operators the estimator is called with.
NonSquareShapes == {<<1, 2>>, <<2, 1>>}

\* ------------------------------------------------------------- helpers
Abs(x) == IF x < 0 THEN -x ELSE x

\* An array held explicitly, as numpy holds the result of an expression
Force(f) == f @@ <<>>

Max2(a, b) == IF a >= b THEN a ELSE b

RECURSIVE SumUpTo(_, _)
\* f[0] + ... + f[k]
SumUpTo(f, k) == IF k < 0 THEN 0 ELSE f[k] + SumUpTo(f, k - 1)

RECURSIVE MaxUpTo(_, _)
\* max(f[0], ..., f[k]), k >= 0
MaxUpTo(f, k) == IF k = 0 THEN f[0] ELSE Max2(f[k], MaxUpTo(f, k - 1))

\* The last index of the maximum of f over 0..k
ArgMaxLast(f, k) == CHOOSE j \in 0..k :
                        /\ f[j] = MaxUpTo(f, k)
                        /\ \A l \in (j + 1)..k : f[l] < f[j]

\* np.argmax: the first index of the maximum of f over 0..k
ArgMax(f, k) == CHOOSE j \in 0..k :
                    /\ f[j] = MaxUpTo(f, k)
                    /\ \A l \in 0..(j - 1) : f[l] < f[j]

RECURSIVE VecDotTo(_, _, _)
\* v[0]*w[0] + ... + v[k]*w[k]
VecDotTo(v, w, k) == IF k < 0 THEN 0 ELSE v[k] * w[k] + VecDotTo(v, w, k - 1)

\* Number of rows / columns of an operator, A.shape
Rows(A) == A.shape[1]
Cols(A) == A.shape[2]

\* A.dot(X) for a block X given by its columns X[0..t-1]
OpDot(A, X) ==
    Force([j \in DOMAIN X |->
        Force([i \in 0..(Rows(A) - 1) |-> VecDotTo(A.m[i], X[j], Cols(A) - 1)])])

\* A.H.dot(S): the adjoint of a real operator is its transpose
OpHDot(A, X) ==
    Force([j \in DOMAIN X |->
        Force([i \in 0..(Cols(A) - 1) |->
            SumUpTo([r \in 0..(Rows(A) - 1) |-> A.m[r][i] * X[j][r]], Rows(A) - 1)])])

\* The exact 1-norm: the maximum absolute column sum
ColAbsSum(A, j) == SumUpTo([i \in 0..(Rows(A) - 1) |-> Abs(A.m[i][j])], Rows(A) - 1)
OneNorm(A) == MaxUpTo([j \in 0..(Cols(A) - 1) |-> ColAbsSum(A, j)], Cols(A) - 1)

\* The float x as its numerator over the denominator n
Num(x, n) == x * n

\* ------------------------------------------------------------- _onenormest.py
sign_round_up(x) == IF x >= 0 THEN 1 ELSE -1

elementary_vector(n, i) == [r \in 0..(n - 1) |-> IF r = i THEN 1 ELSE 0]

VecDot(v, w) == VecDotTo(v, w, Cardinality(DOMAIN v) - 1)

vectors_are_parallel(v, w) == VecDot(v, w) = Cardinality(DOMAIN v)

every_col_of_X_is_parallel_to_a_col_of_Y(X, Y) ==
    \A j \in DOMAIN X : \E l \in DOMAIN Y : vectors_are_parallel(X[j], Y[l])

\* A test every column of signs passes: it is parallel to itself
column_parallel_to_itself(i, X, Y) == vectors_are_parallel(X[i], X[i])

\* Y is <<>> (no columns) where the code passes Y=None
column_needs_resampling(i, X, Y) ==
    \/ \E j \in 0..(i - 1) : vectors_are_parallel(X[i], X[j])
    \/ \E l \in DOMAIN Y : vectors_are_parallel(X[i], Y[l])

\* The outcomes of np.random.randint(0, 2, size=n)*2 - 1
RandomSigns(n) == [0..(n - 1) -> {-1, 1}]

\* "Sort h so that h_first >= ... >= h_last and re-order ind correspondingly":
\* sorted(zip(h, range(n)), reverse=True), the index part
SortedInd(h, n) ==
    LET Before(a, b) == h[a] > h[b] \/ (h[a] = h[b] /\ a > b)
        Rank(a) == Cardinality({b \in 0..(n - 1) : Before(b, a)})
    IN  Force([p \in 0..(n - 1) |-> CHOOSE a \in 0..(n - 1) : Rank(a) = p])

\* The sorted indices as they are, the used ones not moved to the end
UsedLeftInPlace(ind, hist, n) == ind

\* unused_entries + used_entries, each in the order of ind
UnusedFirst(ind, hist, n) ==
    LET Unused(p) == ind[p] \notin hist
        NUnused == Cardinality({p \in 0..(n - 1) : Unused(p)})
        Pos(p) == IF Unused(p)
                  THEN Cardinality({q \in 0..(p - 1) : Unused(q)})
                  ELSE NUnused + Cardinality({q \in 0..(p - 1) : ~Unused(q)})
    IN  Force([p \in 0..(n - 1) |-> ind[CHOOSE q \in 0..(n - 1) : Pos(q) = p]])


\* ------------------------------------------------------------- operators
\* The sparse r-by-c operators: at most MaxNnz entries are nonzero
Positions(r, c) == (0..(r - 1)) \X (0..(c - 1))

EntryValues == {-1, 1}

\* An operator of the given shape with no stored entry
ZeroOp(r, c) ==
    [shape |-> <<r, c>>,
     m |-> [i \in 0..(r - 1) |-> [j \in 0..(c - 1) |-> 0]]]

\* The number of stored (nonzero) entries
Nnz(B) ==
    Cardinality({p \in Positions(Rows(B), Cols(B)) : B.m[p[1]][p[2]] # 0})

Shapes == {<<o, o>> : o \in Orders} \cup NonSquareShapes

\* ------------------------------------------------------------- rationals
\* The likelihood arrays, the prior and the marginal distributions are held
\* exactly: a float is a fraction <<numerator, denominator>> in lowest terms
\* with a positive denominator.
RECURSIVE GCD(_, _)
GCD(a, b) == IF b = 0 THEN a ELSE GCD(b, a % b)

Rat(a, b) ==
    IF a = 0 THEN <<0, 1>>
    ELSE \* b > 0
         <<a \div GCD(Abs(a), b), b \div GCD(Abs(a), b)>>

RZero == Rat(0, 1)
ROne == Rat(1, 1)
RMul(x, y) == Rat(x[1] * y[1], x[2] * y[2])
RAdd(x, y) == Rat(x[1] * y[2] + y[1] * x[2], x[2] * y[2])
RPos(x) == x[1] > 0

RECURSIVE RSumUpTo(_, _)
\* f[0] + ... + f[k]
RSumUpTo(f, k) == IF k < 0 THEN RZero ELSE RAdd(f[k], RSumUpTo(f, k - 1))

\* ------------------------------------------------------------- scenes
\* A scene is what process_json_in unpacks from its request: nnodes, root,
\* edges (a list of <<head, tail>>), edge_rate and edge_process (parallel to
\* edges), state_space_shape, observable_nodes and observable_axes (parallel
\* lists), iid_observations (per site, one value per observable; -1 is a
\* missing observation), distn (the prior) and ordered_nodes (the order
\* get_node_evaluation_order gives for the tree).
MaxNodes == 3

SeqRange(q) == {q[i] : i \in DOMAIN q}

NodesOf(sc) == 0..(sc.nnodes - 1)
SitesOf(sc) == 0..(Len(sc.iid_observations) - 1)

RECURSIVE Product(_, _)
\* np.prod(shape[1..k])
Product(shape, k) == IF k = 0 THEN 1 ELSE shape[k] * Product(shape, k - 1)

StatesOf(sc) == 0..(Product(sc.state_space_shape, Len(sc.state_space_shape)) - 1)

\* T.successors(node): the children of node, in the order of the edge list
Successors(sc, node) ==
    SelectSeq(sc.edges, LAMBDA e : e[1] = node)

\* child_to_edge[node]: the index of the edge whose tail is node (the last
\* one, as dict() keeps the last pair of a key)
EdgeInto(sc, node) ==
    CHOOSE i \in DOMAIN sc.edges :
        /\ sc.edges[i][2] = node
        /\ \A j \in DOMAIN sc.edges : sc.edges[j][2] = node => j <= i

\* edge_to_rate[edge], edge_to_process[edge] of the edge <<head, tail>>
EdgeIndex(sc, e) ==
    CHOOSE i \in DOMAIN sc.edges :
        /\ sc.edges[i] = e
        /\ \A j \in DOMAIN sc.edges : sc.edges[j] = e => j <= i

\* get_node_evaluation_order(T, root): the orders that list every node of the
\* tree once, each node after all of its children
IsEvaluationOrder(sc, q) ==
    /\ Len(q) = sc.nnodes
    /\ SeqRange(q) = NodesOf(sc)
    /\ \A i \in DOMAIN sc.edges :
          \E a, b \in DOMAIN q :
              a < b /\ q[a] = sc.edges[i][2] /\ q[b] = sc.edges[i][1]

\* The coordinate on an axis if the states were flattened in column-major
\* order
CoordinateColumnMajor(shape, s, axis) ==
    (s \div Product(shape, axis)) % shape[axis + 1]

\* The coordinate of the flat state s on an axis (row-major order, the axes
\* numbered from 0)
Coordinate(shape, s, axis) ==
    (s \div Product(SubSeq(shape, axis + 2, Len(shape)), Len(shape) - axis - 1))
        % shape[axis + 1]

\* np.take(indicator_arrays, x, axis=0): row x of the (k+1, k) table, whose
\* rows 0..k-1 are the identity and whose last row (index -1) is all ones
IndicatorRow(x, c) == IF x = -1 THEN 1 ELSE IF x = c THEN 1 ELSE 0

RECURSIVE IndicatorProduct(_, _, _, _, _)
\* obs *= ... over the observables idx <= i that belong to the node
IndicatorProduct(sc, node, s, site, i) ==
    IF i = 0 THEN 1
    ELSE IndicatorProduct(sc, node, s, site, i - 1)
         * (IF sc.observable_nodes[i] = node
            THEN IndicatorRow(sc.iid_observations[site + 1][i],
                              Coordinate(sc.state_space_shape, s,
                                         sc.observable_axes[i]))
            ELSE 1)

create_indicator_array(sc, node) ==
    Force([s \in StatesOf(sc) |->
        Force([site \in SitesOf(sc) |->
            Rat(IndicatorProduct(sc, node, s, site, Len(sc.observable_nodes)), 1)])])

\* The transition matrix expm(A) of a process at rate 1.  Process 0 has the
\* last state absorbing and is left for it at rate ln 2; the other processes
\* move between any two states at the same rate (ln 2)/nstates.
UnitTransition(process, nstates) ==
    [i \in 0..(nstates - 1) |-> [j \in 0..(nstates - 1) |->
        IF process = 0
        THEN IF i = nstates - 1 THEN (IF j = i THEN ROne ELSE RZero)
             ELSE IF j = i \/ j = nstates - 1 THEN Rat(1, 2) ELSE RZero
        ELSE IF j = i THEN Rat(nstates + 1, 2 * nstates)
             ELSE Rat(1, 2 * nstates)]]

\* P.dot(B) for a square matrix P and an array B of shape (nstates, nsites)
MatDot(P, B) ==
    Force([i \in DOMAIN P |->
        Force([site \in DOMAIN B[i] |->
            RSumUpTo([j \in DOMAIN P |-> RMul(P[i][j], B[j][site])],
                     Cardinality(DOMAIN P) - 1)])])

RECURSIVE expm_mul(_, _, _)
\* f[process].expm_mul(rate, B) = expm(rate.A).B, rate a natural number
expm_mul(process, rate, B) ==
    IF rate = 0 THEN B
    ELSE MatDot(UnitTransition(process, Cardinality(DOMAIN B)),
                expm_mul(process, rate - 1, B))

\* The transpose of a square matrix
Transposed(P) == [i \in DOMAIN P |-> [j \in DOMAIN P |-> P[j][i]]]

RECURSIVE expm_tmul(_, _, _)
\* f[process].expm_tmul(rate, B) = expm(rate.A^T).B, rate a natural number
expm_tmul(process, rate, B) ==
    IF rate = 0 THEN B
    ELSE MatDot(Transposed(UnitTransition(process, Cardinality(DOMAIN B))),
                expm_tmul(process, rate - 1, B))

\* arr * other, elementwise
ArrMul(B, C) ==
    Force([i \in DOMAIN B |-> Force([site \in DOMAIN B[i] |-> RMul(B[i][site], C[i][site])])])

\* ------------------------------------------------------------- state
VARIABLES
    \* onenormest / _onenormest_core
    A, t, itmax,        \* the arguments
    pc,                 \* position in onenormest
    X, S, S_old, k, ind, ind_best, ind_hist, est, est_old, w, v, nmults,
    exit,               \* which exit the call took
    nbody,              \* how many times the body of the main loop was entered
    best_seen           \* the largest column 1-norm of Y = A.X seen so far

\* The column index i of the two resampling loops is not a variable: the
\* columns before i are settled and stay so, hence i is always the first
\* column that needs resampling (FirstToResample).
normvars == <<A, t, itmax, pc, X, S, S_old, k, ind, ind_best, ind_hist,
              est, est_old, w, v, nmults, exit, nbody, best_seen>>

VARIABLES
    \* common_likelihood.py / expect.py
    scene,              \* the unpacked request
    op,                 \* the function that was called
    store_all,          \* its store_all argument
    tpc,                \* position in the called function
    pos,                \* position of the running pass in ordered_nodes
    node_to_array,      \* the postorder arrays (node_to_subtree_array)
    likelihoods,
    node_to_marginal_distn,
    edge_to_site_expectations,
    j_out,              \* the response of process_json_in
    error,              \* the exception that ended the call, if any
    log_likelihoods,    \* of process_json_in, per site
    previous,           \* the responses the caller got from earlier calls
    f,                  \* the expm evaluator of each process
    expm_frechet_objects, \* the expm-and-Frechet evaluator of each process
    served,             \* which evaluator served which pass and process
    node_to_preorder_partials

treevars == <<scene, op, store_all, tpc, pos, node_to_array, likelihoods,
              node_to_marginal_distn, edge_to_site_expectations, j_out, error,
              log_likelihoods, previous, f, expm_frechet_objects, served,
              node_to_preorder_partials>>

vars == <<normvars, treevars>>

\* No scene is being evaluated
TreeIdle ==
    /\ scene = <<>> /\ op = "none" /\ store_all = FALSE /\ tpc = "idle"
    /\ pos = 0 /\ node_to_array = <<>> /\ likelihoods = <<>>
    /\ node_to_marginal_distn = <<>> /\ edge_to_site_expectations = <<>>
    /\ j_out = <<>> /\ error = "none"
    /\ log_likelihoods = <<>> /\ previous = <<>>
    /\ f = <<>> /\ expm_frechet_objects = <<>> /\ served = {}
    /\ node_to_preorder_partials = <<>>

\* ind = None, and the names the code has not bound yet
NoIndex == -1

n == Cols(A)
Columns == 0..(t - 1)
Indices == 0..(n - 1)

InitNorm ==
    /\ \E sh \in Shapes : A = ZeroOp(sh[1], sh[2])
    /\ t = 0
    /\ itmax = 0
    /\ pc = "build"
    /\ X = <<>> /\ S = <<>> /\ S_old = <<>>
    /\ k = 0
    /\ ind = <<>> /\ ind_best = NoIndex /\ ind_hist = {}
    /\ est = 0 /\ est_old = 0
    /\ w = <<>> /\ v = <<>>
    /\ nmults = 0
    /\ exit = "none"
    /\ nbody = 0
    /\ best_seen = 0
    /\ TreeIdle

\* The caller stores one more entry in the sparse operator it will pass
BuildEntry ==
    /\ pc = "build"
    /\ UNCHANGED treevars
    /\ Nnz(A) < MaxNnz
    /\ \E p \in Positions(Rows(A), Cols(A)), x \in EntryValues :
          /\ A.m[p[1]][p[2]] = 0
          /\ A' = [A EXCEPT !.m[p[1]][p[2]] = x]
    /\ UNCHANGED <<t, itmax, pc, X, S, S_old, k, ind, ind_best, ind_hist,
                   est, est_old, w, v, nmults, exit, nbody, best_seen>>

\* onenormest(A, t, itmax) is called
Call ==
    /\ pc = "build"
    /\ UNCHANGED treevars
    /\ t' \in 0..MaxT
    /\ itmax' \in 1..MaxItmax
    /\ pc' = "call"
    /\ UNCHANGED <<A, X, S, S_old, k, ind, ind_best, ind_hist,
                   est, est_old, w, v, nmults, exit, nbody, best_seen>>

\* onenormest, lines 72-74: the operator is not square
CallNotSquare ==
    /\ pc = "call"
    /\ UNCHANGED treevars
    /\ Rows(A) # Cols(A)
    /\ pc' = "raised"
    /\ exit' = "ValueError"
    /\ UNCHANGED <<A, t, itmax, X, S, S_old, k, ind, ind_best, ind_hist,
                   est, est_old, w, v, nmults, nbody, best_seen>>

\* onenormest, lines 79-92, 97-105: the exact norm of a small operator
CallExact ==
    /\ pc = "call"
    /\ UNCHANGED treevars
    /\ Rows(A) = Cols(A)
    /\ t >= n
    /\ \E A_explicit \in {OpDot(A, [j \in Indices |-> elementary_vector(n, j)])} :
       \E col_abs_sums \in {Force([j \in Indices |->
               SumUpTo([i \in Indices |-> Abs(A_explicit[j][i])], n - 1)])} :
       \E argmax_j \in {ArgMax(col_abs_sums, n - 1)} :
           /\ est' = Num(col_abs_sums[argmax_j], n)
           /\ v' = elementary_vector(n, argmax_j)
           /\ w' = [i \in Indices |-> Num(A_explicit[argmax_j][i], n)]
    /\ pc' = "returned"
    /\ exit' = "exact"
    /\ UNCHANGED <<A, t, itmax, X, S, S_old, k, ind, ind_best, ind_hist,
                   est_old, nmults, nbody, best_seen>>

\* A check of t alone
BlockSizeValid == t >= 1 /\ t < n

\* _onenormest_core, lines 195-201
CoreArgumentsValid == itmax >= 2 /\ t >= 1 /\ t < n

CallCoreInvalid ==
    /\ pc = "call"
    /\ UNCHANGED treevars
    /\ Rows(A) = Cols(A)
    /\ t < n
    /\ ~CoreArgumentsValid
    /\ pc' = "raised"
    /\ exit' = "ValueError"
    /\ UNCHANGED <<A, t, itmax, X, S, S_old, k, ind, ind_best, ind_hist,
                   est, est_old, w, v, nmults, nbody, best_seen>>

\* A block left as it is: the integer x read as the float x
NotNormalized(B) ==
    [j \in DOMAIN B |-> [i \in DOMAIN B[j] |-> Num(B[j][i], n)]]

\* X /= float(n), on a block of integers: each entry x becomes the float x/n
Normalized(B) ==
    [j \in DOMAIN B |-> [i \in DOMAIN B[j] |-> Num(B[j][i], n) \div n]]

\* resample_column(i, X)
ResampleColumn(i, B, r) == [B EXCEPT ![i] = r]

SomeColumnNeedsResampling(B, Y) ==
    \E i \in DOMAIN B : column_needs_resampling(i, B, Y)

\* The column the loop "for i in range(t): while column_needs_resampling(i, ..)"
\* is at
FirstToResample(B, Y) ==
    CHOOSE i \in DOMAIN B :
        /\ column_needs_resampling(i, B, Y)
        /\ \A j \in 0..(i - 1) : ~column_needs_resampling(j, B, Y)

\* lines 220-231: once no column needs resampling the block is normalized and
\* the main loop is entered
FinishInit(B) ==
    IF t > 1 /\ SomeColumnNeedsResampling(B, <<>>)
    THEN /\ X' = B
         /\ pc' = "init_resample"
         /\ UNCHANGED <<ind_hist, est_old, S, k, ind>>
    ELSE /\ X' = Normalized(B)
         /\ ind_hist' = {}
         /\ est_old' = 0
         /\ S' = [j \in Columns |-> [i \in Indices |-> 0]]
         /\ k' = 1
         /\ ind' = <<>>
         /\ pc' = "loop"

\* lines 195-219: the starting block, its first column ones, the others random
CallCore ==
    /\ pc = "call"
    /\ UNCHANGED treevars
    /\ Rows(A) = Cols(A)
    /\ t < n
    /\ CoreArgumentsValid
    /\ \E R \in [Columns \ {0} -> RandomSigns(n)] :
       \E B \in {[j \in Columns |->
                     IF j = 0 THEN [i \in Indices |-> 1] ELSE R[j]]} :
           FinishInit(B)
    /\ UNCHANGED <<A, t, itmax, S_old, ind_best, est, w, v, nmults, exit,
                   nbody, best_seen>>

\* lines 220-223: one pass of "while column_needs_resampling(i, X):
\* resample_column(i, X)", drawing r
InitResampleTo(r) ==
    /\ pc = "init_resample"
    /\ UNCHANGED treevars
    /\ \E i \in {FirstToResample(X, <<>>)} :
       \E B \in {ResampleColumn(i, X, r)} :
           FinishInit(B)
    /\ UNCHANGED <<A, t, itmax, S_old, ind_best, est, w, v, nmults, exit,
                   nbody, best_seen>>

InitResample == \E r \in RandomSigns(n) : InitResampleTo(r)

\* An update on a strict improvement only
UpdateOnImprovement(est_now, est_before, iteration) == est_now > est_before

\* line 238: the certificates are refreshed when the estimate improves, and
\* always in the second iteration
ShouldUpdate(est_now, est_before, iteration) ==
    est_now > est_before \/ iteration = 2

\* line 287: v = elementary_vector(n, ind_best), at every exit of the main loop
LeaveLoop(label, ib) ==
    /\ v' = elementary_vector(n, ib)
    /\ pc' = "returned"
    /\ exit' = label

\* lines 254-286: the resampling of S is over (or t = 1): Z = AH.dot(S), the
\* exits (4) and (5), and the next probe vectors.  ib is the current ind_best,
\* mults the products counted so far.
AdjointStep(Scur, ib, mults) ==
    /\ S' = Scur
    /\ IF t > 1 /\ SomeColumnNeedsResampling(Scur, S_old')
       THEN /\ pc' = "resample"
            /\ nmults' = mults
            /\ UNCHANGED <<ind, X, ind_hist, k, v, exit>>
       ELSE \E Z \in {OpHDot(A, Scur)} :
            \E h \in {Force([i \in Indices |->
                         MaxUpTo([j \in Columns |-> Abs(Z[j][i])], t - 1)])} :
            \E sorted \in {SortedInd(h, n)} :
            \E ind_new \in {IF t > 1 THEN UnusedFirst(sorted, ind_hist, n)
                            ELSE sorted} :
                /\ nmults' = mults + 1
                /\ IF k >= 2 /\ MaxUpTo(h, n - 1) = h[ib]
                   THEN \* (4)
                        /\ LeaveLoop("4", ib)
                        /\ UNCHANGED <<ind, X, ind_hist, k>>
                   ELSE IF t > 1 /\ {sorted[p] : p \in Columns} \subseteq ind_hist
                   THEN \* (5)
                        /\ ind' = sorted
                        /\ LeaveLoop("5", ib)
                        /\ UNCHANGED <<X, ind_hist, k>>
                   ELSE /\ ind' = ind_new
                        /\ X' = [j \in Columns |->
                                    [i \in Indices |->
                                        Num(elementary_vector(n, ind_new[j])[i], n)]]
                        /\ ind_hist' = ind_hist \cup {ind_new[p] : p \in Columns}
                        /\ k' = k + 1
                        /\ pc' = "loop"
                        /\ UNCHANGED <<v, exit>>

\* lines 232-253: Y = A.dot(X) and the exits (1), k > itmax and (2)
Iterate ==
    /\ pc = "loop"
    /\ UNCHANGED treevars
    /\ \E Y \in {OpDot(A, X)} :
       \E mags \in {Force([j \in Columns |->
                       SumUpTo([i \in Indices |-> Abs(Y[j][i])], n - 1)])} :
       \E est_now \in {MaxUpTo(mags, t - 1)} :
       \E best_j \in {ArgMax(mags, t - 1)} :
       \E update \in {ShouldUpdate(est_now, est_old, k)} :
       \E ib \in {IF update /\ k >= 2 THEN ind[best_j] ELSE ind_best} :
       \E S_new \in {Force([j \in Columns |->
                        Force([i \in Indices |-> sign_round_up(Y[j][i])])])} :
           /\ nbody' = nbody + 1
           /\ best_seen' = Max2(best_seen, est_now)
           /\ ind_best' = ib
           /\ w' = IF update THEN Y[best_j] ELSE w
           /\ IF k >= 2 /\ est_now <= est_old
              THEN \* (1)
                   /\ est' = est_old
                   /\ nmults' = nmults + 1
                   /\ LeaveLoop("1", ib)
                   /\ UNCHANGED <<est_old, S_old, S, ind, X, ind_hist, k>>
              ELSE /\ est' = est_now
                   /\ est_old' = est_now
                   /\ S_old' = S
                   /\ IF k > itmax
                      THEN /\ nmults' = nmults + 1
                           /\ LeaveLoop("itmax", ib)
                           /\ UNCHANGED <<S, ind, X, ind_hist, k>>
                      ELSE IF every_col_of_X_is_parallel_to_a_col_of_Y(S_new, S)
                      THEN \* (2)
                           /\ S' = S_new
                           /\ nmults' = nmults + 1
                           /\ LeaveLoop("2", ib)
                           /\ UNCHANGED <<ind, X, ind_hist, k>>
                      ELSE AdjointStep(S_new, ib, nmults + 1)
    /\ UNCHANGED <<A, t, itmax>>

\* lines 257-260: one pass of "while column_needs_resampling(i, S, S_old):
\* resample_column(i, S)", drawing r; lines 262-286 follow the last one
LoopResampleTo(r) ==
    /\ pc = "resample"
    /\ UNCHANGED treevars
    /\ UNCHANGED <<A, t, itmax, S_old, ind_best, est, est_old, w, nbody,
                   best_seen>>
    /\ \E i \in {FirstToResample(S, S_old)} :
       \E Scur \in {ResampleColumn(i, S, r)} :
           AdjointStep(Scur, ind_best, nmults)

LoopResample == \E r \in RandomSigns(n) : LoopResampleTo(r)

NextNorm ==
    \/ BuildEntry
    \/ Call
    \/ CallNotSquare
    \/ CallExact
    \/ CallCoreInvalid
    \/ CallCore
    \/ InitResample
    \/ Iterate
    \/ LoopResample

SpecNorm == InitNorm /\ [][NextNorm]_vars

\* The estimator called on wider operators, where more indices are unused
\* than a block holds: the operators of order WideOrder with exactly MaxNnz
\* entries, all of them in the first WideRows rows
WideOrder == 4
WideRows == 2
WideT == 2

WideOperators ==
    {[shape |-> <<WideOrder, WideOrder>>,
      m |-> [i \in 0..(WideOrder - 1) |-> [j \in 0..(WideOrder - 1) |->
                IF <<i, j>> \in DOMAIN e THEN e[<<i, j>>] ELSE 0]]] :
        e \in UNION {[P -> EntryValues] :
                        P \in {Q \in SUBSET Positions(WideRows, WideOrder) :
                                  Cardinality(Q) = MaxNnz}}}

\* onenormest(A, t, itmax) is called on a wide operator
InitNormWide ==
    /\ A \in WideOperators
    /\ t \in 1..WideT
    /\ itmax = MaxItmax
    /\ pc = "call"
    /\ X = <<>> /\ S = <<>> /\ S_old = <<>>
    /\ k = 0
    /\ ind = <<>> /\ ind_best = NoIndex /\ ind_hist = {}
    /\ est = 0 /\ est_old = 0
    /\ w = <<>> /\ v = <<>>
    /\ nmults = 0
    /\ exit = "none"
    /\ nbody = 0
    /\ best_seen = 0
    /\ TreeIdle

NextNormWide ==
    \/ CallCore
    \/ InitResample
    \/ Iterate
    \/ LoopResample

SpecNormWide == InitNormWide /\ [][NextNormWide]_vars

\* The random draws are fair: a loop "while column_needs_resampling(i, ..):
\* resample_column(i, ..)" does not draw a parallel column for ever.
InitResampleSettles ==
    /\ pc = "init_resample"
    /\ \E r \in RandomSigns(n) :
       \E i \in {FirstToResample(X, <<>>)} :
       \E B \in {ResampleColumn(i, X, r)} :
           /\ ~column_needs_resampling(i, B, <<>>)
           /\ InitResampleTo(r)

LoopResampleSettles ==
    /\ pc = "resample"
    /\ \E r \in RandomSigns(n) :
       \E i \in {FirstToResample(S, S_old)} :
       \E B \in {ResampleColumn(i, S, r)} :
           /\ ~column_needs_resampling(i, B, S_old)
           /\ LoopResampleTo(r)

\* The interpreter runs every statement that is not a random draw
Deterministic ==
    CallNotSquare \/ CallExact \/ CallCoreInvalid \/ CallCore \/ Iterate

SpecNormFair ==
    /\ SpecNorm
    /\ WF_vars(Deterministic)
    /\ WF_vars(InitResampleSettles)
    /\ WF_vars(LoopResampleSettles)

\* ------------------------------------------------------------- the passes
\* The estimator is not running
NormIdle ==
    /\ A = <<>> /\ t = 0 /\ itmax = 0 /\ pc = "idle"
    /\ X = <<>> /\ S = <<>> /\ S_old = <<>> /\ k = 0
    /\ ind = <<>> /\ ind_best = NoIndex /\ ind_hist = {}
    /\ est = 0 /\ est_old = 0 /\ w = <<>> /\ v = <<>>
    /\ nmults = 0 /\ exit = "none" /\ nbody = 0 /\ best_seen = 0

\* One variable with two states
StateShapes == {<<2>>}
\* The edge rates (edge lengths)
Rates == {0, 1}
Functions == {"get_subtree_likelihoods", "get_conditional_likelihoods",
              "process_json_in", "get_preorder_conditional_likelihoods"}

\* The rooted trees on the nodes 0..nn-1 in which every node has a smaller
\* parent (the root is 0), as edge lists in the order of the tails
TreeEdges(nn) ==
    {[i \in 1..(nn - 1) |-> <<par[i], i>>] :
        par \in {q \in [1..(nn - 1) -> 0..(nn - 1)] :
                    \A c \in 1..(nn - 1) : q[c] < c}}

\* The observations of the site next to one: every observed state replaced
\* by the opposite one
Opposite(shape, row) ==
    [i \in DOMAIN row |-> IF row[i] = -1 THEN -1 ELSE shape[1] - 1 - row[i]]

\* The priors: one with every state possible, one concentrated on state 0
Priors(nstates) ==
    {[s \in 0..(nstates - 1) |->
         IF s = 0 THEN Rat(1, 3) ELSE Rat(2, 3 * (nstates - 1))],
     [s \in 0..(nstates - 1) |-> IF s = 0 THEN ROne ELSE RZero]}

\* The orders get_node_evaluation_order can give for a tree
EvaluationOrders(nn, edges) ==
    {q \in [1..nn -> 0..(nn - 1)] :
        IsEvaluationOrder([nnodes |-> nn, edges |-> edges], q)}

\* A scene on one tree: one observable per node, on axis 0, and two sites
SceneOn(nn, edges, rates, shape, obs, distn, q) ==
    [nnodes |-> nn, root |-> 0, edges |-> edges,
     edge_rate |-> rates,
     edge_process |-> [i \in 1..(nn - 1) |-> (i - 1) % 2],
     state_space_shape |-> shape,
     observable_nodes |-> [i \in 1..nn |-> i - 1],
     observable_axes |-> [i \in 1..nn |-> 0],
     iid_observations |-> <<obs, Opposite(shape, obs)>>,
     distn |-> distn,
     ordered_nodes |-> q]

\* The processes of a request: two in every scene (an edge names one by its
\* index)
Processes == 0..1

\* One identity for the two objects of a process
InstancePerProcess(klass, id) == [klass |-> klass, id |-> (id + 1) \div 2]

\* An evaluator object: its class and its identity, the rank of its
\* construction
Instance(klass, id) == [klass |-> klass, id |-> id]

\* The evaluators the caller of get_subtree_likelihoods and of
\* get_conditional_likelihoods hands over as the argument f
GivenEvaluators == [p \in Processes |-> Instance("PadeExpm", p + 1)]

InitTree ==
    /\ NormIdle
    /\ \E nn \in 2..MaxNodes :
       \E edges \in TreeEdges(nn) :
       \E q \in EvaluationOrders(nn, edges) :
       \E rates \in [1..(nn - 1) -> Rates] :
       \E shape \in StateShapes :
       \E obs \in [1..nn -> {-1, 0, 1}] :
       \E distn \in Priors(2) :
           scene = SceneOn(nn, edges, rates, shape, obs, distn, q)
    /\ op \in Functions
    /\ store_all \in (IF op \in {"process_json_in",
                                  "get_preorder_conditional_likelihoods"}
                       THEN {TRUE} ELSE BOOLEAN)
    /\ tpc = "call"
    /\ pos = 0 /\ node_to_array = <<>> /\ likelihoods = <<>>
    /\ node_to_marginal_distn = <<>> /\ edge_to_site_expectations = <<>>
    /\ j_out = <<>> /\ error = "none"
    /\ log_likelihoods = <<>> /\ previous = <<>>
    /\ f = (IF op = "process_json_in" THEN <<>> ELSE GivenEvaluators)
    /\ expm_frechet_objects = <<>> /\ served = {}
    /\ node_to_preorder_partials = <<>>

Restrict(fn, D) == [x \in D |-> fn[x]]

\* The order as it is: the i-th element of q
ForwardAt(q, i) == q[i]

\* reversed(q): its i-th element, i = 1..len(q)
ReversedAt(q, i) == q[Len(q) + 1 - i]

\* ordered_nodes[:-1]
AllButLast(q) == SubSeq(q, 1, Len(q) - 1)

\* The call ends with an exception
Raise(name) ==
    /\ tpc' = "raised"
    /\ error' = name

\* The identities of the evaluators bound to the names f and
\* expm_frechet_objects
IdsOf(objects) == {objects[p].id : p \in DOMAIN objects}

\* The largest of a set of identities, 0 for none
MaxId(ids) == IF ids = {} THEN 0 ELSE CHOOSE x \in ids : \A y \in ids : y <= x

\* The identity of the next object constructed: one never given before
NextId == MaxId(IdsOf(f) \cup IdsOf(expm_frechet_objects)) + 1

\* One use of an evaluator: the pass, the process of the edge and the object
Use(pass, process, obj) == [pass |-> pass, process |-> process, obj |-> obj]

\* A call that goes on with the maps and the response of the call before it
CallPostorderOnOldFrame ==
    /\ tpc = "call"
    /\ pos' = 1
    /\ tpc' = "postorder"
    /\ UNCHANGED <<scene, op, store_all, error, previous, node_to_array,
                   likelihoods, node_to_marginal_distn,
                   edge_to_site_expectations, log_likelihoods, j_out>>
    /\ UNCHANGED normvars
    /\ served' = {}
    /\ node_to_preorder_partials' = <<>>
    /\ IF op = "process_json_in"
       THEN /\ f' = [p \in Processes |->
                        [klass |-> "PadeExpm", id |-> NextId + 2 * p]]
            /\ expm_frechet_objects' =
                   [p \in Processes |->
                        [klass |-> "ExplicitExpmFrechet",
                         id |-> NextId + 2 * p + 1]]
       ELSE UNCHANGED <<f, expm_frechet_objects>>

\* get_subtree_likelihoods lines 113-120, get_conditional_likelihoods lines
\* 208-217, process_json_in lines 272-333: the call starts with no name of
\* the function bound, and the map of arrays starts empty
CallPostorder ==
    /\ tpc = "call"
    /\ node_to_array' = <<>>
    /\ likelihoods' = <<>> /\ node_to_marginal_distn' = <<>>
    /\ edge_to_site_expectations' = <<>> /\ log_likelihoods' = <<>>
    /\ j_out' = <<>>
    /\ pos' = 1
    /\ tpc' = "postorder"
    /\ UNCHANGED <<scene, op, store_all, error, previous>>
    /\ UNCHANGED normvars
    /\ served' = {}
    /\ node_to_preorder_partials' = <<>>
    /\ IF op = "process_json_in"
       THEN /\ f' = [p \in Processes |->
                        Instance("PadeExpm", NextId + 2 * p)]
            /\ expm_frechet_objects' =
                   [p \in Processes |->
                        Instance("ExplicitExpmFrechet", NextId + 2 * p + 1)]
       ELSE UNCHANGED <<f, expm_frechet_objects>>

\* Only the last child edge is multiplied in
MultiplyLastChildEdge(sc, kids, i, arrays, arr) ==
    IF i = 0 THEN arr
    ELSE ArrMul(arr,
                expm_mul(sc.edge_process[EdgeIndex(sc, kids[i])],
                         sc.edge_rate[EdgeIndex(sc, kids[i])],
                         arrays[kids[i][2]]))

RECURSIVE MultiplyChildEdges(_, _, _, _, _)
\* get_subtree_likelihoods lines 133-145: arr *= expm_mul(edge_rate,
\* child_arr) over the first i child edges of kids
MultiplyChildEdges(sc, kids, i, arrays, arr) ==
    IF i = 0 THEN arr
    ELSE ArrMul(MultiplyChildEdges(sc, kids, i - 1, arrays, arr),
                expm_mul(sc.edge_process[EdgeIndex(sc, kids[i])],
                         sc.edge_rate[EdgeIndex(sc, kids[i])],
                         arrays[kids[i][2]]))

\* The children's arrays are not multiplied in
IgnoreChildren(kids, i, arrays, arr) == arr

RECURSIVE MultiplyChildren(_, _, _, _)
\* get_conditional_likelihoods lines 239-240: arr *= node_to_array[child]
MultiplyChildren(kids, i, arrays, arr) ==
    IF i = 0 THEN arr
    ELSE ArrMul(MultiplyChildren(kids, i - 1, arrays, arr), arrays[kids[i][2]])

RECURSIVE SubtreePass(_, _)
\* get_subtree_likelihoods lines 120-150 with store_all true: the map of
\* arrays after the first i nodes of the evaluation order
SubtreePass(sc, i) ==
    IF i = 0 THEN <<>>
    ELSE LET arrays == SubtreePass(sc, i - 1)
             node == sc.ordered_nodes[i]
             kids == Successors(sc, node)
         IN  (node :> MultiplyChildEdges(sc, kids, Len(kids), arrays,
                                         create_indicator_array(sc, node)))
             @@ arrays

\* get_subtree_likelihoods(f, True, ...): the map it returns
get_subtree_likelihoods(sc) == SubtreePass(sc, sc.nnodes)

\* No array is deleted
WithoutDeletes(kids) == node_to_array

\* The children's arrays overwritten by what was multiplied into the parent,
\* as an in-place product on the stored array would leave them
ChildrenOverwritten(kids) ==
    [c \in DOMAIN node_to_array |->
        IF \E i \in DOMAIN kids : kids[i][2] = c
        THEN expm_mul(scene.edge_process[EdgeInto(scene, c)],
                      scene.edge_rate[EdgeInto(scene, c)], node_to_array[c])
        ELSE node_to_array[c]]

\* lines 146-147 and 241-242: del node_to_array[child] for every child,
\* unless store_all
AfterDeletes(kids) ==
    IF store_all THEN node_to_array
    ELSE Restrict(node_to_array,
                  DOMAIN node_to_array \ {kids[i][2] : i \in DOMAIN kids})

\* get_subtree_likelihoods lines 121-150: the visit of one node
VisitSubtree ==
    /\ tpc = "postorder"
    /\ op \in {"get_subtree_likelihoods", "process_json_in",
              "get_preorder_conditional_likelihoods"}
    /\ pos <= scene.nnodes
    /\ \E node \in {scene.ordered_nodes[pos]} :
       \E kids \in {Successors(scene, node)} :
           IF \E i \in DOMAIN kids : kids[i][2] \notin DOMAIN node_to_array
           THEN Raise("KeyError") /\ UNCHANGED <<node_to_array, pos, served>>
           ELSE \E arr \in {MultiplyChildEdges(scene, kids, Len(kids), node_to_array,
                                               create_indicator_array(scene, node))} :
                    /\ node_to_array' = (node :> arr) @@ AfterDeletes(kids)
                    /\ served' = served \cup
                           {Use("postorder",
                                scene.edge_process[EdgeIndex(scene, kids[i])],
                                f[scene.edge_process[EdgeIndex(scene, kids[i])]]) :
                                i \in DOMAIN kids}
                    /\ pos' = pos + 1
                    /\ UNCHANGED <<tpc, error>>
    /\ UNCHANGED <<scene, op, store_all, likelihoods, node_to_marginal_distn,
                   edge_to_site_expectations, j_out,
                   log_likelihoods, previous>>
    /\ UNCHANGED normvars
    /\ UNCHANGED <<f, expm_frechet_objects, node_to_preorder_partials>>

\* get_conditional_likelihoods lines 218-256: the visit of one node
VisitConditional ==
    /\ tpc = "postorder"
    /\ op = "get_conditional_likelihoods"
    /\ pos <= scene.nnodes
    /\ \E node \in {scene.ordered_nodes[pos]} :
       \E kids \in {Successors(scene, node)} :
           IF \E i \in DOMAIN kids : kids[i][2] \notin DOMAIN node_to_array
           THEN Raise("KeyError") /\ UNCHANGED <<node_to_array, pos, served>>
           ELSE \E arr \in {MultiplyChildren(kids, Len(kids), node_to_array,
                                             create_indicator_array(scene, node))} :
                \E up \in {IF node # scene.root
                            THEN expm_mul(scene.edge_process[EdgeInto(scene, node)],
                                          scene.edge_rate[EdgeInto(scene, node)], arr)
                            ELSE arr} :
                    /\ node_to_array' = (node :> up) @@ AfterDeletes(kids)
                    /\ served' = (IF node = scene.root THEN served
                                  ELSE served \cup
                           {Use("postorder",
                                scene.edge_process[EdgeInto(scene, node)],
                                f[scene.edge_process[EdgeInto(scene, node)]])})
                    /\ pos' = pos + 1
                    /\ UNCHANGED <<tpc, error>>
    /\ UNCHANGED <<scene, op, store_all, likelihoods, node_to_marginal_distn,
                   edge_to_site_expectations, j_out,
                   log_likelihoods, previous>>
    /\ UNCHANGED normvars
    /\ UNCHANGED <<f, expm_frechet_objects, node_to_preorder_partials>>

\* arr.sum(axis=0): per site, the sum over the states without the prior
DotWithoutPrior(distn, arr) ==
    [site \in DOMAIN arr[0] |->
        RSumUpTo([s \in DOMAIN arr |-> arr[s][site]],
                 Cardinality(DOMAIN arr) - 1)]

\* distn.dot(arr): per site, the prior-weighted sum over the states
PriorDot(distn, arr) ==
    [site \in DOMAIN arr[0] |->
        RSumUpTo([s \in DOMAIN arr |-> RMul(distn[s], arr[s][site])],
                 Cardinality(DOMAIN arr) - 1)]

\* lines 152-165 and 258-271: the closing assertion on the keys; then, in
\* process_json_in (lines 335-362), the look at every node's array, the
\* likelihoods at the root and the start of the marginal pass.  A caller
\* of get_preorder_conditional_likelihoods holds the arrays of
\* get_subtree_likelihoods as its postorder partials.
FinishPostorder ==
    /\ tpc = "postorder"
    /\ pos > scene.nnodes
    /\ IF DOMAIN node_to_array #
            (IF store_all THEN NodesOf(scene) ELSE {scene.root})
       THEN Raise("AssertionError")
            /\ UNCHANGED <<pos, likelihoods, node_to_marginal_distn>>
       ELSE IF op # "process_json_in"
       THEN /\ tpc' = (IF op = "get_preorder_conditional_likelihoods"
                       THEN "partials" ELSE "returned")
            /\ UNCHANGED <<pos, likelihoods, node_to_marginal_distn, error>>
       ELSE IF \E node \in NodesOf(scene) : node \notin DOMAIN node_to_array
       THEN Raise("KeyError")
            /\ UNCHANGED <<pos, likelihoods, node_to_marginal_distn>>
       ELSE /\ likelihoods' = PriorDot(scene.distn, node_to_array[scene.root])
            /\ node_to_marginal_distn' = <<>>
            /\ pos' = 1
            /\ tpc' = "marginal"
            /\ UNCHANGED error
    /\ UNCHANGED <<scene, op, store_all, node_to_array,
                   edge_to_site_expectations, j_out,
                   log_likelihoods, previous>>
    /\ UNCHANGED normvars
    /\ UNCHANGED <<f, expm_frechet_objects, served, node_to_preorder_partials>>

\* expect.py lines 160-166: elementwise 0 -> 0, x -> 1/x
pseudo_reciprocal(x) ==
    IF x[1] = 0 THEN RZero
    ELSE IF x[1] > 0 THEN Rat(x[2], x[1]) ELSE Rat(-x[2], -x[1])

\* next_distn.sum(axis=0): per site, the sum over the states
ColumnSums(arr) ==
    [site \in DOMAIN arr[0] |->
        RSumUpTo([s \in DOMAIN arr |-> arr[s][site]], Cardinality(DOMAIN arr) - 1)]

\* The array as it is, not normalized
LeftUnnormalized(arr) == arr

\* lines 150-151: next_distn * pseudo_reciprocal(next_distn.sum(axis=0))
ColumnNormalized(arr) ==
    Force([s \in DOMAIN arr |-> Force([site \in DOMAIN arr[s] |->
        RMul(arr[s][site], pseudo_reciprocal(ColumnSums(arr)[site]))])])

\* np.identity(nstates), as an array
Identity(nstates) ==
    [i \in 0..(nstates - 1) |-> [j \in 0..(nstates - 1) |->
        IF i = j THEN ROne ELSE RZero]]

\* line 120: head_marginal_distn.T.dot(P).T
TransposeDot(P, head) ==
    Force([j \in DOMAIN P |-> Force([site \in DOMAIN head[j] |->
        RSumUpTo([i \in DOMAIN P |-> RMul(head[i][site], P[i][j])],
                 Cardinality(DOMAIN P) - 1)])])

\* The root array without the prior
RootWithoutPrior(arr, distn) == arr

\* lines 97-99: node_to_subtree_array[root] * distn[:, np.newaxis]
RootDistn(arr, distn) ==
    Force([s \in DOMAIN arr |-> Force([site \in DOMAIN arr[s] |->
        RMul(arr[s][site], distn[s])])])

\* lines 100-142: the unnormalized distribution at the tail of the upstream
\* edge (index e) of a node that is not the root
TailDistn(sc, e, head_marginal_distn, subtree_array) ==
    ArrMul(TransposeDot(expm_mul(sc.edge_process[e], sc.edge_rate[e],
                                 Identity(Cardinality(StatesOf(sc)))),
                        head_marginal_distn),
           subtree_array)

\* get_node_to_marginal_distn lines 78-152: the visit of one node, in the
\* reversed evaluation order
VisitMarginal ==
    /\ tpc = "marginal"
    /\ pos <= scene.nnodes
    /\ \E node \in {ReversedAt(scene.ordered_nodes, pos)} :
           IF node = scene.root
           THEN IF scene.root \notin DOMAIN node_to_array
                THEN Raise("KeyError") /\ UNCHANGED <<node_to_marginal_distn, pos, served>>
                ELSE /\ node_to_marginal_distn' =
                            (node :> ColumnNormalized(
                                RootDistn(node_to_array[node], scene.distn)))
                            @@ node_to_marginal_distn
                     /\ pos' = pos + 1
                     /\ UNCHANGED <<tpc, error, served>>
           ELSE IF \/ \A i \in DOMAIN scene.edges : scene.edges[i][2] # node
                   \/ scene.edges[EdgeInto(scene, node)][1]
                          \notin DOMAIN node_to_marginal_distn
                   \/ node \notin DOMAIN node_to_array
           THEN Raise("KeyError") /\ UNCHANGED <<node_to_marginal_distn, pos, served>>
           ELSE \E e \in {EdgeInto(scene, node)} :
                    /\ node_to_marginal_distn' =
                            (node :> ColumnNormalized(
                                TailDistn(scene, e,
                                          node_to_marginal_distn[scene.edges[e][1]],
                                          node_to_array[node])))
                            @@ node_to_marginal_distn
                    /\ served' = served \cup
                           {Use("marginal", scene.edge_process[e],
                                f[scene.edge_process[e]])}
                    /\ pos' = pos + 1
                    /\ UNCHANGED <<tpc, error>>
    /\ UNCHANGED <<scene, op, store_all, node_to_array, likelihoods,
                   edge_to_site_expectations, j_out,
                   log_likelihoods, previous>>
    /\ UNCHANGED normvars
    /\ UNCHANGED <<f, expm_frechet_objects, node_to_preorder_partials>>

\* get_node_to_marginal_distn line 157 and process_json_in lines 364-383: the
\* marginal pass returns, every node's marginal is looked at, and the
\* expectation pass starts on reversed(ordered_nodes[:-1])
FinishMarginal ==
    /\ tpc = "marginal"
    /\ pos > scene.nnodes
    /\ IF \E node \in NodesOf(scene) : node \notin DOMAIN node_to_marginal_distn
       THEN Raise("KeyError") /\ UNCHANGED <<pos, edge_to_site_expectations>>
       ELSE /\ edge_to_site_expectations' = <<>>
            /\ pos' = 1
            /\ tpc' = "expect"
            /\ UNCHANGED error
    /\ UNCHANGED <<scene, op, store_all, node_to_array, likelihoods,
                   node_to_marginal_distn, j_out,
                   log_likelihoods, previous>>
    /\ UNCHANGED normvars
    /\ UNCHANGED <<f, expm_frechet_objects, served, node_to_preorder_partials>>

\* obj.get_expm_and_frechet(edge_rate), the K matrix: the off-diagonal entries
\* of P weighted by the rate, standing for the Frechet derivative of expm in
\* the direction of the process's labeled transitions
FrechetK(process, rate, nstates) ==
    [i \in 0..(nstates - 1) |-> [j \in 0..(nstates - 1) |->
        IF i = j THEN RZero
        ELSE RMul(Rat(rate, 1),
                  expm_mul(process, rate, Identity(nstates))[i][j])]]

\* The sum of the entries of a square array of fractions
TotalOf(J) ==
    RSumUpTo([i \in DOMAIN J |-> RSumUpTo(J[i], Cardinality(DOMAIN J) - 1)],
             Cardinality(DOMAIN J) - 1)

\* The expectation of one site with J left as it is, not divided by its total
SiteExpectationOfRawJ(P, K, head_marginal_distn, subtree_array, site) ==
    TotalOf([i \in DOMAIN P |-> [j \in DOMAIN P |->
        RMul(RMul(RMul(head_marginal_distn[i][site], subtree_array[j][site]),
                  P[i][j]),
             RMul(K[i][j], pseudo_reciprocal(P[i][j])))]])

\* lines 234-263: the expectation of one site
SiteExpectation(P, K, head_marginal_distn, subtree_array, site) ==
    LET J == [i \in DOMAIN P |-> [j \in DOMAIN P |->
                 RMul(RMul(head_marginal_distn[i][site], subtree_array[j][site]),
                      P[i][j])]]
        J_total == TotalOf(J)
        J_normal == [i \in DOMAIN P |-> [j \in DOMAIN P |->
                        IF J_total[1] # 0
                        THEN RMul(J[i][j], pseudo_reciprocal(J_total))
                        ELSE RZero]]
    IN  TotalOf([i \in DOMAIN P |-> [j \in DOMAIN P |->
            RMul(J_normal[i][j], RMul(K[i][j], pseudo_reciprocal(P[i][j])))]])

\* get_edge_to_site_expectations lines 192-265: the visit of one node
VisitExpectation ==
    /\ tpc = "expect"
    /\ pos <= scene.nnodes - 1
    /\ \E node \in {ReversedAt(AllButLast(scene.ordered_nodes), pos)} :
           IF \/ \A i \in DOMAIN scene.edges : scene.edges[i][2] # node
              \/ scene.edges[EdgeInto(scene, node)][1]
                     \notin DOMAIN node_to_marginal_distn
              \/ node \notin DOMAIN node_to_array
           THEN Raise("KeyError") /\ UNCHANGED <<edge_to_site_expectations, pos, served>>
           ELSE \E e \in {EdgeInto(scene, node)} :
                \E P \in {expm_mul(scene.edge_process[e], scene.edge_rate[e],
                                    Identity(Cardinality(StatesOf(scene))))} :
                \E K \in {FrechetK(scene.edge_process[e], scene.edge_rate[e],
                                    Cardinality(StatesOf(scene)))} :
                    /\ edge_to_site_expectations' =
                           (scene.edges[e] :>
                               [site \in SitesOf(scene) |->
                                   SiteExpectation(P, K,
                                       node_to_marginal_distn[scene.edges[e][1]],
                                       node_to_array[node], site)])
                           @@ edge_to_site_expectations
                    /\ served' = served \cup
                           {Use("expect", scene.edge_process[e],
                                expm_frechet_objects[scene.edge_process[e]])}
                    /\ pos' = pos + 1
                    /\ UNCHANGED <<tpc, error>>
    /\ UNCHANGED <<scene, op, store_all, node_to_array, likelihoods,
                   node_to_marginal_distn, j_out,
                   log_likelihoods, previous>>
    /\ UNCHANGED normvars
    /\ UNCHANGED <<f, expm_frechet_objects, node_to_preorder_partials>>

\* The likelihood is not negative
NotNegative(likelihood) == likelihood[1] >= 0

\* np.isfinite(np.log(likelihood)): the likelihood is positive
Feasible(likelihood) == RPos(likelihood)

\* Python's None, told from the expectations of a scene by having no site
None == <<>>

\* np.log(likelihood): the logarithm of a fraction is kept as the fraction it
\* is the logarithm of; it is finite when the fraction is positive, and the
\* number 0 is the logarithm of 1
Log(likelihood) == [finite |-> RPos(likelihood), of |-> likelihood]

\* The logarithm as np.log gives it, -inf for 0
LogWithoutSentinel(likelihood) == Log(likelihood)

\* lines 386-391: np.where(feasibilities, np.log(likelihoods), 0)
LogOrZero(likelihood) ==
    IF Feasible(likelihood) THEN Log(likelihood) ELSE Log(ROne)

\* The expectations listed per site in the order the edges were visited,
\* reversed(ordered_nodes[:-1]), not in the order of the edge list
ExpectationsInVisitOrder ==
    [site \in SitesOf(scene) |->
        [i \in DOMAIN scene.edges |->
            edge_to_site_expectations[
                scene.edges[EdgeInto(scene,
                    ReversedAt(AllButLast(scene.ordered_nodes), i))]][site]]]

\* The expectations as the response lists them: per site, one per edge
ExpectationsOut ==
    [site \in SitesOf(scene) |->
        [i \in DOMAIN scene.edges |->
            edge_to_site_expectations[scene.edges[i]][site]]]

\* The response without the test of lines 393-408: the expectations are
\* reported whatever the feasibility
AssembleWithoutTest ==
    /\ tpc = "expect"
    /\ pos > scene.nnodes - 1
    /\ log_likelihoods' = [site \in DOMAIN likelihoods |->
                              LogOrZero(likelihoods[site])]
    /\ j_out' = [status |-> "success",
                 feasibility |->
                     \A site \in DOMAIN likelihoods : Feasible(likelihoods[site]),
                 expectations |-> ExpectationsOut]
    /\ tpc' = "returned"
    /\ UNCHANGED <<scene, op, store_all, pos, node_to_array, likelihoods,
                   node_to_marginal_distn, edge_to_site_expectations, error,
                   previous>>
    /\ UNCHANGED normvars
    /\ UNCHANGED <<f, expm_frechet_objects, served, node_to_preorder_partials>>

\* process_json_in lines 386-417: the logarithms, feasibility and the response
Assemble ==
    /\ tpc = "expect"
    /\ pos > scene.nnodes - 1
    /\ log_likelihoods' = [site \in DOMAIN likelihoods |->
                              LogOrZero(likelihoods[site])]
    /\ IF \A site \in DOMAIN likelihoods : Feasible(likelihoods[site])
       THEN IF \E i \in DOMAIN scene.edges :
                   scene.edges[i] \notin DOMAIN edge_to_site_expectations
            THEN Raise("KeyError") /\ UNCHANGED j_out
            ELSE /\ j_out' = [status |-> "success",
                              feasibility |-> TRUE,
                              expectations |-> ExpectationsOut]
                 /\ tpc' = "returned"
                 /\ UNCHANGED error
       ELSE /\ j_out' = [status |-> "success", feasibility |-> FALSE,
                         expectations |-> None]
            /\ tpc' = "returned"
            /\ UNCHANGED error
    /\ UNCHANGED <<scene, op, store_all, pos, node_to_array, likelihoods,
                   node_to_marginal_distn, edge_to_site_expectations, previous>>
    /\ UNCHANGED normvars
    /\ UNCHANGED <<f, expm_frechet_objects, served, node_to_preorder_partials>>

\* The list q with its entries i and j exchanged
Exchanged(q, i, j) ==
    [x \in DOMAIN q |-> IF x = i THEN q[j] ELSE IF x = j THEN q[i] ELSE q[x]]

\* The requests that list two sibling edges of sc (with their rates and
\* processes) in the other order, with the evaluation orders of their tree
SiblingSwaps(sc) ==
    {[[[[sc EXCEPT !.edges = Exchanged(sc.edges, i, j)]
            EXCEPT !.edge_rate = Exchanged(sc.edge_rate, i, j)]
            EXCEPT !.edge_process = Exchanged(sc.edge_process, i, j)]
            EXCEPT !.ordered_nodes = q] :
        <<i, j, q>> \in
            {x \in (DOMAIN sc.edges) \X (DOMAIN sc.edges)
                      \X EvaluationOrders(sc.nnodes, sc.edges) :
                x[1] < x[2] /\ sc.edges[x[1]][1] = sc.edges[x[2]][1]}}

\* The caller keeps what process_json_in computed and calls it again, with
\* the same request or with one that lists two sibling edges in the other
\* order; what the first call left behind is still in memory
MaxCalls == 2

CallAgain ==
    /\ tpc = "returned"
    /\ op = "process_json_in"
    /\ Len(previous) + 1 < MaxCalls
    /\ previous' = Append(previous, [scene |-> scene, j_out |-> j_out,
                                     likelihoods |-> likelihoods])
    /\ scene' \in {scene} \cup SiblingSwaps(scene)
    /\ tpc' = "call"
    /\ UNCHANGED <<op, store_all, pos, node_to_array, likelihoods,
                   node_to_marginal_distn, edge_to_site_expectations, j_out,
                   error, log_likelihoods, f, expm_frechet_objects, served,
                   node_to_preorder_partials>>
    /\ UNCHANGED normvars

\* np.ones((nstates, nsites))
Ones(sc) ==
    Force([s \in StatesOf(sc) |-> Force([site \in SitesOf(sc) |-> ROne])])

\* list(T.predecessors(node))[0]
Predecessor(sc, node) == sc.edges[EdgeInto(sc, node)][1]

RECURSIVE MultiplySiblings(_, _, _, _, _)
\* get_preorder_conditional_likelihoods lines 332-334: arr *=
\* node_to_postorder_partials[child] over the first i children of the
\* parent, the node itself left out
MultiplySiblings(kids, i, node, partials, arr) ==
    IF i = 0 THEN arr
    ELSE IF kids[i][2] = node
    THEN MultiplySiblings(kids, i - 1, node, partials, arr)
    ELSE ArrMul(MultiplySiblings(kids, i - 1, node, partials, arr),
                partials[kids[i][2]])

\* get_preorder_conditional_likelihoods is called with the postorder
\* partials the caller holds, lines 273-319: the map of preorder partials
\* starts empty
CallPreorder ==
    /\ tpc = "partials"
    /\ op = "get_preorder_conditional_likelihoods"
    /\ store_all' \in BOOLEAN
    /\ node_to_preorder_partials' = <<>>
    /\ pos' = 1
    /\ tpc' = "preorder"
    /\ UNCHANGED <<scene, op, node_to_array, likelihoods,
                   node_to_marginal_distn, edge_to_site_expectations, j_out,
                   error, log_likelihoods, previous, f, expm_frechet_objects,
                   served>>
    /\ UNCHANGED normvars

\* get_preorder_conditional_likelihoods lines 320-345: the visit of one node,
\* in the reversed evaluation order; no array is deleted, whatever store_all
VisitPreorder ==
    /\ tpc = "preorder"
    /\ pos <= scene.nnodes
    /\ \E node \in {ReversedAt(scene.ordered_nodes, pos)} :
           IF node = scene.root
           THEN /\ node_to_preorder_partials' =
                       (node :> RootDistn(Ones(scene), scene.distn))
                       @@ node_to_preorder_partials
                /\ pos' = pos + 1
                /\ UNCHANGED <<tpc, error, served>>
           ELSE \E parent_node \in {Predecessor(scene, node)} :
                \E kids \in {Successors(scene, parent_node)} :
                    IF \/ \E i \in DOMAIN kids :
                             /\ kids[i][2] # node
                             /\ kids[i][2] \notin DOMAIN node_to_array
                       \/ parent_node \notin DOMAIN node_to_preorder_partials
                    THEN /\ Raise("KeyError")
                         /\ UNCHANGED <<node_to_preorder_partials, pos, served>>
                    ELSE \E e \in {EdgeInto(scene, node)} :
                         \E arr \in {ArrMul(MultiplySiblings(kids, Len(kids), node,
                                                 node_to_array, Ones(scene)),
                                            node_to_preorder_partials[parent_node])} :
                             /\ node_to_preorder_partials' =
                                    (node :> expm_tmul(scene.edge_process[e],
                                                       scene.edge_rate[e], arr))
                                    @@ node_to_preorder_partials
                             /\ served' = served \cup
                                    {Use("preorder", scene.edge_process[e],
                                         f[scene.edge_process[e]])}
                             /\ pos' = pos + 1
                             /\ UNCHANGED <<tpc, error>>
    /\ UNCHANGED <<scene, op, store_all, node_to_array, likelihoods,
                   node_to_marginal_distn, edge_to_site_expectations, j_out,
                   log_likelihoods, previous, f, expm_frechet_objects>>
    /\ UNCHANGED normvars

\* lines 352-360: the closing assertion on the keys, and the return
FinishPreorder ==
    /\ tpc = "preorder"
    /\ pos > scene.nnodes
    /\ IF DOMAIN node_to_preorder_partials #
            (IF store_all THEN NodesOf(scene) ELSE {scene.root})
       THEN Raise("AssertionError")
       ELSE tpc' = "returned" /\ UNCHANGED error
    /\ UNCHANGED <<scene, op, store_all, pos, node_to_array, likelihoods,
                   node_to_marginal_distn, edge_to_site_expectations, j_out,
                   log_likelihoods, previous, f, expm_frechet_objects, served,
                   node_to_preorder_partials>>
    /\ UNCHANGED normvars

NextTree ==
    \/ CallPostorder
    \/ VisitSubtree
    \/ VisitConditional
    \/ FinishPostorder
    \/ VisitMarginal
    \/ FinishMarginal
    \/ VisitExpectation
    \/ Assemble
    \/ CallAgain
    \/ CallPreorder
    \/ VisitPreorder
    \/ FinishPreorder

SpecTree == InitTree /\ [][NextTree]_vars

\* ------------------------------------------------------------- indicators
\* create_indicator_array called on its own: state spaces of one and of two
\* axes, up to MaxObservables observables on two nodes, any of them on any
\* axis, one or two sites, every observation -1 or a state of its axis
MaxObservables == 2
IndicatorShapes == {<<2>>, <<2, 2>>, <<3, 2>>}

InitIndicator ==
    /\ NormIdle
    /\ \E shape \in IndicatorShapes :
       \E nobs \in 0..MaxObservables :
       \E nodes \in [1..nobs -> {0, 1}] :
       \E axes \in [1..nobs -> 0..(Len(shape) - 1)] :
       \E nsites \in 1..2 :
       \E obs \in [1..nsites -> [1..nobs -> -1..2]] :
       \E node \in {0, 1} :
           /\ \A site \in 1..nsites : \A i \in 1..nobs :
                 obs[site][i] < shape[axes[i] + 1]
           /\ scene = [node |-> node,
                       state_space_shape |-> shape,
                       observable_nodes |-> nodes,
                       observable_axes |-> axes,
                       iid_observations |-> obs]
    /\ op = "create_indicator_array"
    /\ store_all = FALSE
    /\ tpc = "call"
    /\ pos = 0 /\ node_to_array = <<>> /\ likelihoods = <<>>
    /\ node_to_marginal_distn = <<>> /\ edge_to_site_expectations = <<>>
    /\ j_out = <<>> /\ error = "none"
    /\ log_likelihoods = <<>> /\ previous = <<>>
    /\ f = <<>> /\ expm_frechet_objects = <<>> /\ served = {}
    /\ node_to_preorder_partials = <<>>

\* common_likelihood.py lines 25-92: the array of the node, kept under the
\* node's name
CallIndicator ==
    /\ tpc = "call"
    /\ op = "create_indicator_array"
    /\ node_to_array' =
           (scene.node :> create_indicator_array(scene, scene.node))
    /\ tpc' = "returned"
    /\ UNCHANGED <<scene, op, store_all, pos, likelihoods,
                   node_to_marginal_distn, edge_to_site_expectations, j_out,
                   error, log_likelihoods, previous>>
    /\ UNCHANGED normvars
    /\ UNCHANGED <<f, expm_frechet_objects, served, node_to_preorder_partials>>

SpecIndicator == InitIndicator /\ [][CallIndicator]_vars

\* ------------------------------------------------------------- operators
\* tests/test_pyexp.py, check_operator_equivalence on RdOperator, RdcOperator
\* and RdCOperator of pyexp/ctmc_ops.py. Matrices are functions of the row
\* then the column, both from 0; a block B has the single column 0.

\* The order of the sampled rate matrices
OperatorOrder == 2
Base == 0..(OperatorOrder - 1)
\* The entries the samples are drawn from
RateEntries == {0, 1, 2}
ShiftEntries == {-1, 0, 1}
CouplingEntries == {-1, 0, 2}

\* get_random_rate_matrix: a matrix of rates without entries on the diagonal
RateMatrices ==
    {[i \in Base |-> [j \in Base |-> IF i = j THEN 0 ELSE r[<<i, j>>]]] :
        r \in [{x \in Base \X Base : x[1] # x[2]} -> RateEntries]}

\* get_random_sparse_square_matrix: a square matrix with at most two entries
SparseMatrices ==
    {M \in [Base -> [Base -> CouplingEntries]] :
        Cardinality({x \in Base \X Base : M[x[1]][x[2]] # 0}) <= 2}

\* The operators, as the objects hold them
RdOperator(R, d) == [kind |-> "Rd", R |-> R, d |-> d]
RdcOperator(Rd, c) == [kind |-> "Rdc", Rd |-> Rd, c |-> c]
RdCOperator(Rd, C) == [kind |-> "RdC", Rd |-> Rd, C |-> C]

\* L.shape[1]
OrderOf(L) == IF L.kind = "Rd" THEN OperatorOrder ELSE 2 * OperatorOrder

\* M.T of a dense square matrix
DenseT(M) == [i \in DOMAIN M |-> [j \in DOMAIN M |-> M[j][i]]]

\* M.dot(B) of a dense square matrix and a block
DenseDot(M, B) ==
    Force([i \in DOMAIN M |-> Force([col \in DOMAIN B[i] |->
        SumUpTo([j \in DOMAIN M |-> M[i][j] * B[j][col]],
                Cardinality(DOMAIN M) - 1)])])

\* np.linalg.norm(M, 1): the largest absolute column sum
DenseOneNorm(M) ==
    MaxUpTo([j \in DOMAIN M |->
                SumUpTo([i \in DOMAIN M |-> Abs(M[i][j])],
                        Cardinality(DOMAIN M) - 1)],
            Cardinality(DOMAIN M) - 1)

\* np.linalg.norm(M, np.inf): the largest absolute row sum
DenseInfNorm(M) == DenseOneNorm(DenseT(M))

\* The sum and the scaling of blocks, the halves of a block and their stack
BlockAdd(B1, B2) ==
    Force([i \in DOMAIN B1 |-> Force([col \in DOMAIN B1[i] |->
        B1[i][col] + B2[i][col]])])
Scaled(d, B) ==
    Force([i \in DOMAIN B |-> Force([col \in DOMAIN B[i] |-> d[i] * B[i][col]])])
Upper(B) == Force([i \in Base |-> B[i]])
Lower(B) == Force([i \in Base |-> B[i + OperatorOrder]])
Stacked(B1, B2) ==
    Force([i \in 0..(2 * OperatorOrder - 1) |->
        IF i < OperatorOrder THEN B1[i] ELSE B2[i - OperatorOrder]])

\* The sparse matrix of a view: "N" the operator, "T" and "H" its transpose
\* (the operators are real)
Viewed(M, view) == IF view = "N" THEN M ELSE DenseT(M)

\* RdOperator.dot: the sparse product plus the elementwise diagonal scaling
RdDot(L, view, B) == BlockAdd(DenseDot(Viewed(L.R, view), B), Scaled(L.d, B))

\* The coupling block diag(c) or C of an augmented operator
Coupling(L) ==
    IF L.kind = "Rdc"
    THEN [i \in Base |-> [j \in Base |-> IF i = j THEN L.c[i] ELSE 0]]
    ELSE L.C

\* An augmented operator with the coupling applied to the wrong half
AugmentedDotSwapped(L, view, B) ==
    IF view = "N"
    THEN Stacked(RdDot(L.Rd, view, Upper(B)),
                 BlockAdd(RdDot(L.Rd, view, Lower(B)),
                          DenseDot(Coupling(L), Upper(B))))
    ELSE Stacked(BlockAdd(RdDot(L.Rd, view, Upper(B)),
                          DenseDot(DenseT(Coupling(L)), Lower(B))),
                 RdDot(L.Rd, view, Lower(B)))

\* RdcOperator.dot and RdCOperator.dot: the base operator on each half of the
\* block, the coupling carried from the lower half to the upper one (from the
\* upper to the lower one in the transposed views)
AugmentedDot(L, view, B) ==
    IF view = "N"
    THEN Stacked(BlockAdd(RdDot(L.Rd, view, Upper(B)),
                          DenseDot(Coupling(L), Lower(B))),
                 RdDot(L.Rd, view, Lower(B)))
    ELSE Stacked(RdDot(L.Rd, view, Upper(B)),
                 BlockAdd(RdDot(L.Rd, view, Lower(B)),
                          DenseDot(DenseT(Coupling(L)), Upper(B))))

\* f.dot(B) of a view of an operator
ViewDot(L, view, B) ==
    IF L.kind = "Rd" THEN RdDot(L, view, B) ELSE AugmentedDot(L, view, B)

\* The absolute column sums of the base operator's view, from the sparse
\* rates and the shift, without the dense matrix
RdColumnSums(L, view) ==
    [j \in Base |->
        SumUpTo([i \in Base |-> Abs(Viewed(L.R, view)[i][j])], OperatorOrder - 1)
            + Abs(L.d[j])]

\* The absolute column sums of the coupling block of a view
CouplingColumnSums(L, view) ==
    [j \in Base |->
        SumUpTo([i \in Base |-> Abs(Viewed(Coupling(L), view)[i][j])],
                OperatorOrder - 1)]

\* f.one_norm() of a view: for an augmented operator the columns of the half
\* that holds the coupling add its column sums
ViewOneNorm(L, view) ==
    IF L.kind = "Rd"
    THEN MaxUpTo(RdColumnSums(L, view), OperatorOrder - 1)
    ELSE IF view = "N"
    THEN MaxUpTo([j \in Base |-> RdColumnSums(L.Rd, view)[j]
                                    + CouplingColumnSums(L, view)[j]],
                 OperatorOrder - 1)
    ELSE Max2(MaxUpTo([j \in Base |-> RdColumnSums(L.Rd, view)[j]
                                         + CouplingColumnSums(L, view)[j]],
                      OperatorOrder - 1),
              MaxUpTo(RdColumnSums(L.Rd, view), OperatorOrder - 1))

\* The other view: the transpose of the transpose is the operator
Flipped(view) == IF view = "N" THEN "T" ELSE "N"

\* f.inf_norm() of a view: the 1-norm of the other view
ViewInfNorm(L, view) == ViewOneNorm(L, Flipped(view))

\* test_pyexp.py lines 69, 86-87 and 106-107: the dense matrix M of the
\* operator, Q = R.A + np.diag(d) and np.bmat([[Q, coupling], [0, Q]])
DenseQ(Rd) ==
    [i \in Base |-> [j \in Base |->
        Rd.R[i][j] + (IF i = j THEN Rd.d[i] ELSE 0)]]
DenseOf(L) ==
    IF L.kind = "Rd" THEN DenseQ(L)
    ELSE [i \in 0..(2 * OperatorOrder - 1) |->
            [j \in 0..(2 * OperatorOrder - 1) |->
                IF i < OperatorOrder /\ j < OperatorOrder THEN DenseQ(L.Rd)[i][j]
                ELSE IF i < OperatorOrder
                THEN Coupling(L)[i][j - OperatorOrder]
                ELSE IF j < OperatorOrder THEN 0
                ELSE DenseQ(L.Rd)[i - OperatorOrder][j - OperatorOrder]]]

\* The blocks the operators are applied to: the unit vectors and one vector
\* of mixed signs
Blocks(order) ==
    {[i \in 0..(order - 1) |-> (0 :> (IF i = j THEN 1 ELSE 0))] :
        j \in 0..(order - 1)}
    \cup {[i \in 0..(order - 1) |-> (0 :> (IF i % 2 = 0 THEN 2 ELSE -1))]}

\* The three pairs (f, g) of check_operator_equivalence, by the view of L:
\* (L, M), (L.T, M.T), (L.H, M.T)
Views == {"N", "T", "H"}

\* The sampled operators of test_RdOperator, test_RdcOperator and
\* test_RdCOperator
SampledOperators ==
    LET Rds == {RdOperator(R, d) : R \in RateMatrices,
                                    d \in [Base -> ShiftEntries]}
    IN  Rds
        \cup {RdcOperator(Rd, c) : Rd \in Rds, c \in [Base -> ShiftEntries]}
        \cup {RdCOperator(Rd, C) : Rd \in Rds, C \in SparseMatrices}

InitOperator ==
    /\ NormIdle
    /\ \E L \in SampledOperators :
       \E B \in Blocks(OrderOf(L)) :
           scene = [L |-> L, M |-> DenseOf(L), B |-> B]
    /\ op = "check_operator_equivalence"
    /\ store_all = FALSE
    /\ tpc = "call"
    /\ pos = 0 /\ node_to_array = <<>> /\ likelihoods = <<>>
    /\ node_to_marginal_distn = <<>> /\ edge_to_site_expectations = <<>>
    /\ j_out = <<>> /\ error = "none"
    /\ log_likelihoods = <<>> /\ previous = <<>>
    /\ f = <<>> /\ expm_frechet_objects = <<>> /\ served = {}
    /\ node_to_preorder_partials = <<>>

\* What the three assertions on a pair (f, g) compare: the values of the
\* operator's view and those of the dense matrix
Compared(L, M, B, view) ==
    [actual |-> [dot |-> ViewDot(L, view, B),
                 one_norm |-> ViewOneNorm(L, view),
                 inf_norm |-> ViewInfNorm(L, view)],
     desired |-> [dot |-> DenseDot(Viewed(M, view), B),
                  one_norm |-> DenseOneNorm(Viewed(M, view)),
                  inf_norm |-> DenseInfNorm(Viewed(M, view))]]

\* check_operator_equivalence, lines 48-58: the assertions on the three
\* pairs; what was compared is kept in j_out
CheckOperatorEquivalence ==
    /\ tpc = "call"
    /\ op = "check_operator_equivalence"
    /\ j_out' = [view \in Views |-> Compared(scene.L, scene.M, scene.B, view)]
    /\ IF \A view \in Views : j_out'[view].actual = j_out'[view].desired
       THEN tpc' = "returned" /\ UNCHANGED error
       ELSE Raise("AssertionError")
    /\ UNCHANGED <<scene, op, store_all, pos, node_to_array, likelihoods,
                   node_to_marginal_distn, edge_to_site_expectations,
                   log_likelihoods, previous>>
    /\ UNCHANGED normvars
    /\ UNCHANGED <<f, expm_frechet_objects, served, node_to_preorder_partials>>

SpecOperator == InitOperator /\ [][CheckOperatorEquivalence]_vars

\* ------------------------------------------------------------- claims
InCore == pc \in {"init_resample", "loop", "resample"}
LoopExits == {"1", "itmax", "2", "4", "5"}
Square == Rows(A) = Cols(A)
AbsSum(u) == SumUpTo([i \in DOMAIN u |-> Abs(u[i])], Cardinality(DOMAIN u) - 1)
\* Column j of A, as floats
ColumnOf(j) == [i \in Indices |-> Num(A.m[i][j], n)]

\* C1: the estimate onenormest returns is a lower bound on the exact 1-norm
\* of A (the maximum absolute column sum), on the exact path and on the block
\* path, whatever columns were drawn.
C1_LowerBound == pc = "returned" => est <= Num(OneNorm(A), n)

C1_Witness ==
    /\ pc = "returned" /\ exit \in LoopExits /\ t = 2
    /\ 0 < est /\ est < Num(OneNorm(A), n)

\* C2: with t >= n the block iteration is not run; the result is exactly the
\* maximum absolute column sum, v the unit vector of the first maximizing
\* column and w that column of A.
C2_ExactPath ==
    (pc = "returned" /\ t >= n) =>
        /\ exit = "exact" /\ nbody = 0 /\ nmults = 0 /\ k = 0
        /\ est = Num(OneNorm(A), n)
        /\ \E j \in Indices :
              /\ ColAbsSum(A, j) = OneNorm(A)
              /\ \A l \in 0..(j - 1) : ColAbsSum(A, l) < OneNorm(A)
              /\ v = elementary_vector(n, j)
              /\ w = ColumnOf(j)

C2_Witness ==
    /\ pc = "returned" /\ exit = "exact" /\ n = 3
    /\ ColAbsSum(A, 1) = OneNorm(A) /\ ColAbsSum(A, 2) = OneNorm(A)
    /\ ColAbsSum(A, 0) < OneNorm(A)
    /\ v = elementary_vector(n, 1)

\* C3 as stated: every call with t < 1, or itmax < 2, or an operator that is
\* not square fails and returns no estimate, whatever the relation of t and n.
C3_AlwaysRejected ==
    (pc # "build" /\ (t < 1 \/ itmax < 2 \/ ~Square)) => pc # "returned"

\* C3 as amended: onenormest raises ValueError, without entering the block
\* iteration and without returning an estimate, when the operator is not
\* square, when t < 1, and when itmax < 2 and t < n; with itmax < 2 and t >= n
\* the call is not rejected: it returns the exact norm.
C3_Rejected ==
    /\ (pc # "build" /\ (~Square \/ t < 1 \/ (itmax < 2 /\ t < n))) =>
          /\ pc \in {"call", "raised"}
          /\ pc = "call" => ENABLED (CallNotSquare \/ CallCoreInvalid)
          /\ pc = "raised" => exit = "ValueError" /\ nbody = 0 /\ v = <<>>
    /\ (pc # "build" /\ Square /\ itmax < 2 /\ t >= n) =>
          /\ pc \in {"call", "returned"}
          /\ pc = "returned" => exit = "exact" /\ est = Num(OneNorm(A), n)

C3_Witness ==
    /\ pc = "raised" /\ exit = "ValueError"
    /\ Square /\ t >= 1 /\ t < n /\ itmax < 2

\* C4: with valid parameters the block iteration terminates (the draws being
\* fair), it raises nothing, and it returns the largest column 1-norm of
\* Y = A.X seen over all the iterations it ran.
C4_TerminatesWithBest ==
    InCore ~> (pc = "returned" /\ exit \in LoopExits /\ est = best_seen)

C4_Witness ==
    /\ pc = "returned" /\ exit = "itmax" /\ k > itmax /\ est = best_seen
    /\ est > 0

\* C5 as stated: the body of the main loop, which starts with Y = A.dot(X),
\* is entered at most itmax times.
C5_AtMostItmaxIterations == nbody <= itmax

\* C5, what the code does: the test "k > itmax" follows the product and k
\* starts at 1, so the body is entered at most itmax + 1 times.
C5_AtMostItmaxPlusOne == nbody <= itmax + 1

C5_Witness ==
    /\ pc = "returned" /\ exit = "itmax" /\ nbody = itmax + 1
    /\ nmults = 2 * itmax + 1

\* C6: the certificates agree with the estimate at every exit: v is a unit
\* vector, w = A.v, and the 1-norm of A.v is est times the 1-norm of v.
C6_Certificates ==
    pc = "returned" =>
        \E j \in Indices :
            /\ v = elementary_vector(n, j)
            /\ w = ColumnOf(j)
            /\ AbsSum(w) = est * AbsSum(v)

C6_Witness ==
    /\ pc = "returned" /\ exit = "1" /\ k = 2 /\ t = 2
    /\ est > 0

\* ------------------------------------------------------------- claims, passes
PostorderFunctions == {"get_subtree_likelihoods", "get_conditional_likelihoods"}
SubtreeFunctions == {"get_subtree_likelihoods", "process_json_in"}

\* The nodes the running postorder pass has visited
Visited ==
    {scene.ordered_nodes[i] : i \in 1..(IF pos > scene.nnodes THEN scene.nnodes
                                         ELSE pos - 1)}

\* The parent of a node that is not the root
ParentOf(sc, node) ==
    CHOOSE h \in NodesOf(sc) : \E i \in DOMAIN sc.edges : sc.edges[i] = <<h, node>>

ChildrenOf(sc, node) ==
    {c \in NodesOf(sc) : \E i \in DOMAIN sc.edges : sc.edges[i] = <<node, c>>}

\* The transition matrix expm(rate.A) of edge i applied to the array child:
\* entry [s][site] is the sum over the states c of expm(rate.A)[s][c] times
\* child[c][site]
ThroughEdge(sc, i, child) ==
    LET P == Force(expm_mul(sc.edge_process[i], sc.edge_rate[i],
                            Identity(Cardinality(StatesOf(sc)))))
    IN  Force([s \in StatesOf(sc) |-> Force([site \in SitesOf(sc) |->
            RSumUpTo([c \in StatesOf(sc) |-> RMul(P[s][c], child[c][site])],
                     Cardinality(StatesOf(sc)) - 1)])])

RECURSIVE SubtreeLikelihoods(_, _)
RECURSIVE ChildSubtrees(_, _, _)
RECURSIVE ChildEdgeProduct(_, _, _, _, _, _)
\* The arrays of the proper descendants of node that hang below its edges of
\* index <= i
ChildSubtrees(sc, node, i) ==
    IF i = 0 THEN <<>>
    ELSE IF sc.edges[i][1] # node THEN ChildSubtrees(sc, node, i - 1)
    ELSE Force(SubtreeLikelihoods(sc, sc.edges[i][2]))
             @@ ChildSubtrees(sc, node, i - 1)

\* The product, at [s][site], over the edges of index <= i that leave node
ChildEdgeProduct(sc, node, below, s, site, i) ==
    IF i = 0 THEN ROne
    ELSE IF sc.edges[i][1] # node
    THEN ChildEdgeProduct(sc, node, below, s, site, i - 1)
    ELSE RMul(ChildEdgeProduct(sc, node, below, s, site, i - 1),
              below[i][s][site])

\* The likelihood of the observations in the subtree of every node x at or
\* below node, given that x is in state s, at each site: x's indicator
\* times, for each child edge, the transition matrix of the edge applied to
\* the child's subtree likelihood.  Computed from the tree alone.
SubtreeLikelihoods(sc, node) ==
    LET sub == Force(ChildSubtrees(sc, node, Len(sc.edges)))
        below == Force([i \in {j \in DOMAIN sc.edges : sc.edges[j][1] = node} |->
                           ThroughEdge(sc, i, sub[sc.edges[i][2]])])
        indicator == Force(create_indicator_array(sc, node))
    IN  (node :> Force([s \in StatesOf(sc) |-> Force([site \in SitesOf(sc) |->
            RMul(indicator[s][site],
                 ChildEdgeProduct(sc, node, below, s, site, Len(sc.edges)))])]))
            @@ sub

\* C7: in get_subtree_likelihoods a node is visited after all its children,
\* no child array is missing when its parent consumes it, and the array
\* stored for a node is its indicator array times expm_mul(edge_rate,
\* child_array) over its child edges (a leaf's array is its indicator array).
C7_SubtreeArrays ==
    (op \in SubtreeFunctions /\ tpc # "call") =>
        /\ error # "KeyError"
        /\ tpc = "postorder" =>
              \A node \in Visited : ChildrenOf(scene, node) \subseteq Visited
        /\ \E expected \in {SubtreeLikelihoods(scene, scene.root)} :
              \A node \in DOMAIN node_to_array :
                  \A s \in StatesOf(scene) : \A site \in SitesOf(scene) :
                      node_to_array[node][s][site] = expected[node][s][site]

C7_Witness ==
    /\ op = "get_subtree_likelihoods" /\ tpc = "returned"
    /\ Cardinality(ChildrenOf(scene, scene.root)) = 2
    /\ \A i \in DOMAIN scene.edges : scene.edge_rate[i] = 1
    /\ \E site \in SitesOf(scene) :
          /\ RPos(node_to_array[scene.root][0][site])
          /\ node_to_array[scene.root][0][site] # ROne
          /\ node_to_array[scene.root][1][site] = RZero

\* C8: the memory policy of get_subtree_likelihoods and
\* get_conditional_likelihoods.  With store_all false the arrays alive after
\* a visit are those of the visited nodes whose parent is not visited yet, and
\* at the end the root's alone; with store_all true nothing is removed and at
\* the end every node has an array.  The closing assertion never fails.
C8_MemoryPolicy ==
    (op \in PostorderFunctions /\ tpc # "call") =>
        /\ error # "AssertionError"
        /\ tpc \in {"postorder", "returned"}
        /\ store_all => DOMAIN node_to_array = Visited
        /\ ~store_all =>
              DOMAIN node_to_array =
                  {x \in Visited :
                      x # scene.root => ParentOf(scene, x) \notin Visited}
        /\ tpc = "returned" =>
              DOMAIN node_to_array =
                  (IF store_all THEN NodesOf(scene) ELSE {scene.root})

C8_Witness ==
    /\ op = "get_conditional_likelihoods" /\ ~store_all
    /\ tpc = "postorder" /\ pos = 3 /\ scene.nnodes = 3
    /\ Cardinality(DOMAIN node_to_array) = 1
    /\ scene.root \notin DOMAIN node_to_array

\* C9: process_json_in runs its passes in order.  The subtree pass has
\* produced every node's array before a marginal is computed, and every
\* node's marginal exists before an expectation is computed; a node gets its
\* marginal after its parent; no pass reads an array that was not produced
\* (no KeyError), and no pass raises.
C9_PassesInOrder ==
    (op = "process_json_in" /\ tpc # "call") =>
        /\ tpc # "raised" /\ error = "none"
        /\ tpc = "postorder" =>
              node_to_marginal_distn = <<>> /\ edge_to_site_expectations = <<>>
        /\ tpc = "marginal" =>
              /\ DOMAIN node_to_array = NodesOf(scene)
              /\ edge_to_site_expectations = <<>>
        /\ DOMAIN node_to_marginal_distn # {} =>
              DOMAIN node_to_array = NodesOf(scene)
        /\ \A node \in DOMAIN node_to_marginal_distn :
              node # scene.root =>
                  ParentOf(scene, node) \in DOMAIN node_to_marginal_distn
        /\ DOMAIN edge_to_site_expectations # {} =>
              DOMAIN node_to_marginal_distn = NodesOf(scene)
        /\ tpc = "expect" =>
              DOMAIN node_to_marginal_distn = NodesOf(scene)
        /\ \A e \in DOMAIN edge_to_site_expectations :
              \E i \in DOMAIN scene.edges : scene.edges[i] = e

C9_Witness ==
    /\ op = "process_json_in" /\ tpc = "returned" /\ scene.nnodes = 3
    /\ scene.ordered_nodes # <<2, 1, 0>>
    /\ DOMAIN node_to_marginal_distn = NodesOf(scene)
    /\ Cardinality(DOMAIN edge_to_site_expectations) = 2
    /\ j_out.feasibility

\* The prior-weighted column of the root's postorder array at one site
RootColumn(s, site) ==
    RMul(scene.distn[s], node_to_array[scene.root][s][site])

RootColumnSum(site) ==
    RSumUpTo([s \in StatesOf(scene) |-> RootColumn(s, site)],
             Cardinality(StatesOf(scene)) - 1)

\* C10: at the root the marginal distribution is, at every site, the prior
\* times the root's postorder array, divided by the sum of that column; it is
\* all zero when the sum is zero.
C10_RootMarginal ==
    (op = "process_json_in" /\ scene.root \in DOMAIN node_to_marginal_distn) =>
        \A site \in SitesOf(scene) : \A s \in StatesOf(scene) :
            IF RootColumnSum(site) = RZero
            THEN node_to_marginal_distn[scene.root][s][site] = RZero
            ELSE RMul(node_to_marginal_distn[scene.root][s][site],
                      RootColumnSum(site)) = RootColumn(s, site)

C10_Witness ==
    /\ op = "process_json_in" /\ scene.root \in DOMAIN node_to_marginal_distn
    /\ RootColumnSum(0) = RZero
    /\ RPos(RootColumnSum(1)) /\ RootColumnSum(1) # ROne
    /\ \E s \in StatesOf(scene) :
          /\ RPos(node_to_marginal_distn[scene.root][s][1])
          /\ node_to_marginal_distn[scene.root][s][1] # RootColumn(s, 1)

\* The siblings of a node that is not the root
SiblingsOf(sc, node) == ChildrenOf(sc, ParentOf(sc, node)) \ {node}

RECURSIVE ProductOver(_, _, _, _)
\* The product, at [s][site], of the arrays of the nodes of a set
ProductOver(arrays, nodes, s, site) ==
    IF nodes = {} THEN ROne
    ELSE LET x == CHOOSE y \in nodes : TRUE
         IN  RMul(arrays[x][s][site], ProductOver(arrays, nodes \ {x}, s, site))

\* The parent's marginal distribution pushed through the transpose
\* exponential action of the edge into node
PushedDown(node) ==
    expm_tmul(scene.edge_process[EdgeInto(scene, node)],
              scene.edge_rate[EdgeInto(scene, node)],
              node_to_marginal_distn[ParentOf(scene, node)])

\* The column at a site of an array [s][site] divided by its sum is the column
\* of marginal; a column of sum zero gives a zero column
IsColumnNormalized(marginal, unnormalized, site) ==
    LET total == RSumUpTo([s \in StatesOf(scene) |-> unnormalized[s][site]],
                          Cardinality(StatesOf(scene)) - 1)
    IN  \A s \in StatesOf(scene) :
            IF total = RZero THEN marginal[s][site] = RZero
            ELSE RMul(marginal[s][site], total) = unnormalized[s][site]

\* The unnormalized distribution of C11 as stated: pushed-down parent
\* marginal times the siblings' postorder arrays times the node's own
WithSiblings(node) ==
    [s \in StatesOf(scene) |-> [site \in SitesOf(scene) |->
        RMul(RMul(PushedDown(node)[s][site],
                  ProductOver(node_to_array, SiblingsOf(scene, node), s, site)),
             node_to_array[node][s][site])]]

\* What get_node_to_marginal_distn multiplies: the pushed-down parent marginal
\* and the node's own postorder array
OwnArrayOnly(node) ==
    [s \in StatesOf(scene) |-> [site \in SitesOf(scene) |->
        RMul(PushedDown(node)[s][site], node_to_array[node][s][site])]]

\* C11 as stated: at every non-root node the marginal distribution is the
\* parent's marginal pushed through expm_tmul of the connecting edge, times
\* the postorder arrays of the node's siblings, times the node's own postorder
\* array, column-normalized per site with the pseudo-reciprocal rule.
C11_SiblingsMultiplied ==
    op = "process_json_in" =>
        \A node \in DOMAIN node_to_marginal_distn \ {scene.root} :
            \A site \in SitesOf(scene) :
                IsColumnNormalized(node_to_marginal_distn[node],
                                   WithSiblings(node), site)

\* C11, what the code computes: the same product without the siblings'
\* arrays, column-normalized per site with the pseudo-reciprocal rule.
C11_SiblingsLeftOut ==
    op = "process_json_in" =>
        \A node \in DOMAIN node_to_marginal_distn \ {scene.root} :
            \A site \in SitesOf(scene) :
                IsColumnNormalized(node_to_marginal_distn[node],
                                   OwnArrayOnly(node), site)

C11_Witness ==
    /\ op = "process_json_in" /\ tpc = "returned"
    /\ \E node \in DOMAIN node_to_marginal_distn \ {scene.root} :
       \E site \in SitesOf(scene) :
          /\ SiblingsOf(scene, node) # {}
          /\ \E s \in StatesOf(scene) :
                ProductOver(node_to_array, SiblingsOf(scene, node), s, site) # ROne
          /\ \A s \in StatesOf(scene) :
                /\ RPos(node_to_marginal_distn[node][s][site])
                /\ node_to_marginal_distn[node][s][site] # Rat(1, 2)

\* The sum of the column of an array at a site
ColumnTotal(arr, site) ==
    RSumUpTo([s \in StatesOf(scene) |-> arr[s][site]],
             Cardinality(StatesOf(scene)) - 1)

ZeroColumn(arr, site) == \A s \in StatesOf(scene) : arr[s][site] = RZero

\* Some fractions, zero and negative ones among them
SmallFractions == {Rat(a, b) : a \in -3..3, b \in 1..3}

\* C12: pseudo_reciprocal maps 0 to 0 and any other x to 1/x; the marginal
\* pass never raises, every column it produces sums to 1 or is all zero, and
\* under a zero column of a node the column of each child is zero.
C12_ZeroColumns ==
    (op = "process_json_in" /\ tpc # "call") =>
        /\ error = "none"
        /\ \A x \in SmallFractions :
              IF x = RZero THEN pseudo_reciprocal(x) = RZero
              ELSE RMul(x, pseudo_reciprocal(x)) = ROne
        /\ \A node \in DOMAIN node_to_marginal_distn : \A site \in SitesOf(scene) :
              /\ \/ ColumnTotal(node_to_marginal_distn[node], site) = ROne
                 \/ ZeroColumn(node_to_marginal_distn[node], site)
              /\ \A child \in ChildrenOf(scene, node) \cap DOMAIN node_to_marginal_distn :
                    ZeroColumn(node_to_marginal_distn[node], site)
                        => ZeroColumn(node_to_marginal_distn[child], site)

C12_Witness ==
    /\ op = "process_json_in" /\ tpc = "returned" /\ scene.nnodes = 3
    /\ \A node \in NodesOf(scene) : ZeroColumn(node_to_marginal_distn[node], 0)
    /\ \E s \in StatesOf(scene) : node_to_array[2][s][0] # RZero
    /\ \A node \in NodesOf(scene) :
          ColumnTotal(node_to_marginal_distn[node], 1) = ROne
    /\ \E node \in NodesOf(scene) :
          \A s \in StatesOf(scene) : RPos(node_to_marginal_distn[node][s][1])

\* P and K of the edge of index e
EdgeP(e) ==
    expm_mul(scene.edge_process[e], scene.edge_rate[e],
             Identity(Cardinality(StatesOf(scene))))
EdgeK(e) ==
    FrechetK(scene.edge_process[e], scene.edge_rate[e],
             Cardinality(StatesOf(scene)))

\* The weight of the pair of end states (i, j) of the edge of index e at a
\* site: head marginal at i times tail subtree array at j
EndWeight(e, i, j, site) ==
    RMul(node_to_marginal_distn[scene.edges[e][1]][i][site],
         node_to_array[scene.edges[e][2]][j][site])

\* The sum over the pairs (i, j) of fn[<<i, j>>]
SumOverPairs(fn) ==
    TotalOf([i \in StatesOf(scene) |-> [j \in StatesOf(scene) |-> fn[<<i, j>>]]])

\* The total of the unnormalized J of an edge at a site
JTotal(e, site) ==
    SumOverPairs([q \in StatesOf(scene) \X StatesOf(scene) |->
        RMul(EndWeight(e, q[1], q[2], site), EdgeP(e)[q[1]][q[2]])])

\* The sum of weight times K over the pairs where P is not zero
KWeighted(e, site) ==
    SumOverPairs([q \in StatesOf(scene) \X StatesOf(scene) |->
        IF EdgeP(e)[q[1]][q[2]] = RZero THEN RZero
        ELSE RMul(EndWeight(e, q[1], q[2], site), EdgeK(e)[q[1]][q[2]])])

\* C13: for every edge and site the reported expectation is sum(J * K *
\* pseudo_reciprocal(P)) with J = outer(head marginal, tail subtree) * P
\* divided by its total: the pairs where P is zero contribute nothing, the
\* others contribute weight times K over the total of J, and a site whose J
\* has total zero has expectation 0.
C13_SiteExpectations ==
    op = "process_json_in" =>
        \A edge \in DOMAIN edge_to_site_expectations :
            \E e \in {EdgeIndex(scene, edge)} : \A site \in SitesOf(scene) :
                IF JTotal(e, site) = RZero
                THEN edge_to_site_expectations[edge][site] = RZero
                ELSE RMul(edge_to_site_expectations[edge][site], JTotal(e, site))
                        = KWeighted(e, site)

C13_Witness ==
    /\ op = "process_json_in" /\ tpc = "returned"
    /\ \E edge \in DOMAIN edge_to_site_expectations :
          /\ JTotal(EdgeIndex(scene, edge), 0) = RZero
          /\ \E i \in StatesOf(scene) :
                node_to_array[edge[2]][i][0] # RZero
          /\ JTotal(EdgeIndex(scene, edge), 1) # ROne
          /\ RPos(edge_to_site_expectations[edge][1])
          /\ edge_to_site_expectations[edge][1] # ROne

\* The prior-weighted sum over the states of the root's subtree likelihood at
\* a site, computed from the tree alone
PriorWeighted(site) ==
    LET expected == SubtreeLikelihoods(scene, scene.root)[scene.root]
    IN  RSumUpTo([s \in StatesOf(scene) |->
                     RMul(scene.distn[s], expected[s][site])],
                 Cardinality(StatesOf(scene)) - 1)

\* C14: the likelihood of a site is the prior-weighted sum over the states of
\* the root's postorder array, and the feasibility flag of the response is
\* true exactly when every site's likelihood is strictly positive (a
\* likelihood is a finite sum of finite products).
C14_LikelihoodAndFeasibility ==
    (op = "process_json_in" /\ tpc \in {"marginal", "expect", "returned"}) =>
        /\ DOMAIN likelihoods = SitesOf(scene)
        /\ \A site \in SitesOf(scene) : likelihoods[site] = PriorWeighted(site)
        /\ tpc = "returned" =>
              (j_out.feasibility <=>
                  \A site \in SitesOf(scene) : RPos(PriorWeighted(site)))

C14_Witness ==
    /\ op = "process_json_in" /\ tpc = "returned"
    /\ ~j_out.feasibility
    /\ RPos(likelihoods[0]) /\ likelihoods[0] # ROne /\ likelihoods[0] # Rat(1, 2)
    /\ likelihoods[1] = RZero
    /\ scene.nnodes = 3

\* Some site of the scene has a likelihood that is not positive
Infeasible ==
    /\ DOMAIN likelihoods = SitesOf(scene)
    /\ \E site \in SitesOf(scene) : ~RPos(likelihoods[site])

\* C15 as stated: when the scene is infeasible the edge-expectation pass is
\* not run (no expectation is computed) and the response carries feasibility
\* false and no expectation values.
C15_PassNotRun ==
    (op = "process_json_in" /\ tpc \in {"expect", "returned"} /\ Infeasible) =>
        /\ edge_to_site_expectations = <<>>
        /\ tpc = "returned" =>
              ~j_out.feasibility /\ j_out.expectations = None

\* C15, what the code does: the edge-expectation pass runs on every edge of an
\* infeasible scene as well, before the feasibility is looked at; the
\* response then carries feasibility false and None for the expectations,
\* even if some site is feasible.
C15_ComputedButWithheld ==
    (op = "process_json_in" /\ tpc = "returned" /\ Infeasible) =>
        /\ DOMAIN edge_to_site_expectations = SeqRange(scene.edges)
        /\ ~j_out.feasibility
        /\ j_out.expectations = None

C15_Witness ==
    /\ op = "process_json_in" /\ tpc = "returned" /\ Infeasible
    /\ \E site \in SitesOf(scene) :
          /\ RPos(likelihoods[site])
          /\ \E edge \in DOMAIN edge_to_site_expectations :
                RPos(edge_to_site_expectations[edge][site])
    /\ j_out.expectations = None

\* The number 0
ZeroNumber == [finite |-> TRUE, of |-> ROne]

\* The logarithm of a site's likelihood, with the sentinel 0 in the place of
\* the logarithm of 0
WithSentinel(site) ==
    IF likelihoods[site] = RZero THEN ZeroNumber
    ELSE [finite |-> TRUE, of |-> likelihoods[site]]

\* C16 as stated: the result of process_json_in reports the log-likelihoods,
\* 0 for an infeasible site and the logarithm of the likelihood for a
\* feasible one.
C16_ReportedInResult ==
    (op = "process_json_in" /\ tpc = "returned") =>
        /\ "log_likelihoods" \in DOMAIN j_out
        /\ \A site \in SitesOf(scene) :
              j_out.log_likelihoods[site] = WithSentinel(site)

\* C16, what the code does: the log-likelihoods are computed with 0 in the
\* place of -inf, but the result holds the status, the feasibility and the
\* expectations only; no log-likelihood is reported.
C16_ComputedNotReported ==
    (op = "process_json_in" /\ tpc = "returned") =>
        /\ DOMAIN j_out = {"status", "feasibility", "expectations"}
        /\ DOMAIN log_likelihoods = SitesOf(scene)
        /\ \A site \in SitesOf(scene) :
              log_likelihoods[site] = WithSentinel(site)

C16_Witness ==
    /\ op = "process_json_in" /\ tpc = "returned"
    /\ \E site \in SitesOf(scene) :
          likelihoods[site] = RZero /\ log_likelihoods[site] = ZeroNumber
    /\ \E site \in SitesOf(scene) :
          /\ RPos(likelihoods[site]) /\ likelihoods[site] # ROne
          /\ log_likelihoods[site].of = likelihoods[site]
    /\ "log_likelihoods" \notin DOMAIN j_out

RECURSIVE FlatIndex(_, _, _)
\* The place, in row-major order, of the state of coordinates c[1..a]
FlatIndex(shape, c, a) ==
    IF a = 0 THEN 0 ELSE FlatIndex(shape, c, a - 1) * shape[a] + c[a]

\* The coordinates of the flat state s
CoordinatesOf(shape, s) ==
    CHOOSE c \in [1..Len(shape) -> 0..2] :
        /\ \A a \in 1..Len(shape) : c[a] < shape[a]
        /\ FlatIndex(shape, c, Len(shape)) = s

\* The observables attached to the node the call is about
LocalObservables ==
    {i \in DOMAIN scene.observable_nodes : scene.observable_nodes[i] = scene.node}

\* The observable i allows the state s at a site
Allows(i, s, site) ==
    \/ scene.iid_observations[site + 1][i] = -1
    \/ scene.iid_observations[site + 1][i]
           = CoordinatesOf(scene.state_space_shape, s)[scene.observable_axes[i] + 1]

\* C17: create_indicator_array returns an (nstates, nsites) array of zeros and
\* ones; the entry of (state, site) is 1 exactly when every observable of the
\* node is -1 at the site or equals the coordinate of the state on its axis
\* (row-major flattening).  A node without observables gets ones; two
\* observables of the node that disagree on one axis give a zero column.
C17_IndicatorArray ==
    (op = "create_indicator_array" /\ tpc = "returned") =>
        \E arr \in {node_to_array[scene.node]} :
            /\ DOMAIN arr = StatesOf(scene)
            /\ \A s \in StatesOf(scene) :
                  /\ DOMAIN arr[s] = SitesOf(scene)
                  /\ \A site \in SitesOf(scene) :
                        /\ arr[s][site] \in {RZero, ROne}
                        /\ arr[s][site] = ROne
                              <=> \A i \in LocalObservables : Allows(i, s, site)
                        /\ LocalObservables = {} => arr[s][site] = ROne
                        /\ (\E i, j \in LocalObservables :
                               /\ scene.observable_axes[i] = scene.observable_axes[j]
                               /\ scene.iid_observations[site + 1][i] # -1
                               /\ scene.iid_observations[site + 1][j] # -1
                               /\ scene.iid_observations[site + 1][i]
                                      # scene.iid_observations[site + 1][j])
                              => arr[s][site] = RZero

C17_Witness ==
    /\ op = "create_indicator_array" /\ tpc = "returned"
    /\ scene.state_space_shape = <<3, 2>>
    /\ Cardinality(LocalObservables) = 2
    /\ Len(scene.iid_observations) = 2
    /\ node_to_array[scene.node][3][0] = ROne
    /\ \A s \in StatesOf(scene) \ {3} : node_to_array[scene.node][s][0] = RZero
    /\ Cardinality({s \in StatesOf(scene) : node_to_array[scene.node][s][1] = ROne}) = 3

\* The nodes without children
LeavesOf(sc) == {x \in NodesOf(sc) : ChildrenOf(sc, x) = {}}

\* The values observed at a node at a site, missing ones left out
ObservedAt(sc, node, site) ==
    {sc.iid_observations[site + 1][i] :
        i \in {j \in DOMAIN sc.observable_nodes : sc.observable_nodes[j] = node}}
    \ {-1}

\* The values observed at a set of nodes at a site
ObservedAmong(sc, nodes, site) ==
    UNION {ObservedAt(sc, node, site) : node \in nodes}

AllRatesZero(sc) == \A i \in DOMAIN sc.edges : sc.edge_rate[i] = 0

LeavesObserved(sc) ==
    \A leaf \in LeavesOf(sc) : \A site \in SitesOf(sc) :
        ObservedAt(sc, leaf, site) # {}

\* C18: with every edge rate 0 and every leaf observed, the likelihood of a
\* site is the prior probability of the observed state when all observed
\* nodes show one state, and 0 when the leaves show different states.
C18_ZeroRates ==
    (/\ op = "process_json_in" /\ tpc \in {"marginal", "expect", "returned"}
     /\ AllRatesZero(scene) /\ LeavesObserved(scene)) =>
        \A site \in SitesOf(scene) :
            /\ \A x \in StatesOf(scene) :
                  ObservedAmong(scene, NodesOf(scene), site) = {x}
                      => likelihoods[site] = scene.distn[x]
            /\ Cardinality(ObservedAmong(scene, LeavesOf(scene), site)) > 1
                  => likelihoods[site] = RZero

C18_Witness ==
    /\ op = "process_json_in" /\ tpc = "returned"
    /\ AllRatesZero(scene) /\ LeavesObserved(scene)
    /\ Cardinality(LeavesOf(scene)) = 2
    /\ ObservedAt(scene, scene.root, 0) = {}
    /\ ObservedAmong(scene, NodesOf(scene), 0) = {0}
    /\ likelihoods[0] = Rat(1, 3) /\ likelihoods[1] = Rat(2, 3)

\* What the caller kept of the call before this one
Before == previous[Len(previous)]

\* This call's request is the one before with two sibling edges exchanged
SiblingsSwapped ==
    /\ previous # <<>>
    /\ scene.edges # Before.scene.edges

\* C19: for a feasible scene, listing two sibling edges in the other order
\* (the children are then multiplied into their parent's array in the other
\* order) leaves the likelihood of every site unchanged.
C19_SiblingOrder ==
    (/\ op = "process_json_in" /\ tpc \in {"marginal", "expect", "returned"}
     /\ SiblingsSwapped /\ Before.j_out.feasibility) =>
        \A site \in SitesOf(scene) :
            likelihoods[site] = Before.likelihoods[site]

C19_Witness ==
    /\ op = "process_json_in" /\ tpc = "returned"
    /\ SiblingsSwapped /\ Before.j_out.feasibility
    /\ Successors(scene, scene.root) = <<<<0, 2>>, <<0, 1>>>>
    /\ scene.edge_rate = <<1, 1>>
    /\ node_to_array[1] # node_to_array[2]
    /\ \A site \in SitesOf(scene) :
          /\ likelihoods[site] # ROne /\ likelihoods[site] # Rat(1, 2)
          /\ likelihoods[site] = Before.likelihoods[site]

\* This call's request is the request of the call before
SameRequest ==
    /\ previous # <<>>
    /\ scene = Before.scene

\* No map, array or response of an earlier call is bound in this call
FreshFrame ==
    /\ node_to_array = <<>> /\ likelihoods = <<>>
    /\ node_to_marginal_distn = <<>> /\ edge_to_site_expectations = <<>>
    /\ log_likelihoods = <<>> /\ j_out = <<>>

ServedBy(process) == {u.obj : u \in {x \in served : x.process = process}}

\* The passes of process_json_in have started
InPasses == tpc \in {"postorder", "marginal", "expect", "returned"}

\* C21 as stated: one evaluator per process serves all three passes.
C21_OneInstancePerProcess ==
    (op = "process_json_in" /\ InPasses) =>
        \A process \in Processes : Cardinality(ServedBy(process)) <= 1

\* C21: within one call of process_json_in every process has two evaluators,
\* a PadeExpm in f and an ExplicitExpmFrechet in expm_frechet_objects, all
\* of them different objects constructed before the first pass; the first
\* serves every use of the process in the postorder and the marginal pass,
\* the second every use in the expectation pass, and no evaluator is
\* constructed or replaced while the passes run.
C21_TwoInstancesPerProcess ==
    /\ [](op = "process_json_in" /\ InPasses =>
            /\ DOMAIN f = Processes
            /\ DOMAIN expm_frechet_objects = Processes
            /\ \A p \in Processes :
                  /\ f[p].klass = "PadeExpm"
                  /\ expm_frechet_objects[p].klass = "ExplicitExpmFrechet"
            /\ Cardinality(IdsOf(f) \cup IdsOf(expm_frechet_objects)) =
                   2 * Cardinality(Processes)
            /\ \A u \in served :
                  u.obj = IF u.pass = "expect"
                          THEN expm_frechet_objects[u.process]
                          ELSE f[u.process])
    /\ [][tpc # "call" => UNCHANGED <<f, expm_frechet_objects>>]_vars

C21_Witness ==
    /\ op = "process_json_in" /\ tpc = "returned"
    /\ j_out.feasibility
    /\ \A process \in Processes : \A pass \in {"postorder", "marginal", "expect"} :
          \E u \in served : u.process = process /\ u.pass = pass
    /\ \A process \in Processes : Cardinality(ServedBy(process)) = 2

\* C22: for RdOperator, RdcOperator and RdCOperator on rate matrices without
\* diagonal entries, the dot of the operator, of its transpose view and of
\* its adjoint view equal the products of the dense matrix and of its
\* transpose with the block, and one_norm and inf_norm of each view equal
\* the 1-norm and the infinity-norm of the dense matrix of the view; no
\* assertion of check_operator_equivalence fails.
C22_OperatorEquivalence ==
    op = "check_operator_equivalence" =>
        /\ tpc # "raised"
        /\ tpc = "returned" =>
              \A view \in Views :
                  /\ j_out[view].actual.dot =
                         DenseDot(Viewed(DenseOf(scene.L), view), scene.B)
                  /\ j_out[view].actual.one_norm =
                         DenseOneNorm(Viewed(DenseOf(scene.L), view))
                  /\ j_out[view].actual.inf_norm =
                         DenseInfNorm(Viewed(DenseOf(scene.L), view))

C22_Witness ==
    /\ op = "check_operator_equivalence" /\ tpc = "returned"
    /\ scene.L.kind = "RdC"
    /\ scene.L.C[0][1] # 0 /\ scene.L.C[1][0] = 0
    /\ scene.L.Rd.R[0][1] # scene.L.Rd.R[1][0]
    /\ scene.L.Rd.d[0] < 0
    /\ j_out["N"].actual.dot # j_out["T"].actual.dot
    /\ j_out["N"].actual.one_norm # j_out["N"].actual.inf_norm
    /\ j_out["T"].actual.dot = j_out["H"].actual.dot

\* C24: with valid parameters no exit of the main loop of _onenormest_core
\* is taken in the first iteration, so ind, ind_best and w are assigned
\* before they are read: ind holds a permutation of the indices from the
\* second iteration on, ind_best is an index whenever step (4) reads
\* h[ind_best] after a resampling, and at every exit ind_best is an index, w
\* is a column of A.dot(X) and v is the unit vector of ind_best.
C24_AssignedBeforeRead ==
    /\ (pc \in {"loop", "resample"} /\ k >= 2) =>
          /\ DOMAIN ind = Indices
          /\ {ind[p] : p \in Indices} = Indices
    /\ (pc = "resample" /\ k >= 2) => ind_best \in Indices
    /\ exit \in LoopExits =>
          /\ nbody >= 2
          /\ k >= 2
          /\ ind_best \in Indices
          /\ DOMAIN w = Indices
          /\ v = elementary_vector(n, ind_best)

C24_Witness ==
    /\ exit = "1" /\ nbody = 2
    /\ est = 0 /\ est_old = 0
    /\ ind_best \in Indices
    /\ \A i \in Indices : w[i] = 0
    /\ t = 2

\* The negative of a vector
Negated(u) == [i \in DOMAIN u |-> -u[i]]

\* C25 as stated: two sign vectors are parallel for vectors_are_parallel
\* when they are equal or one is the negative of the other.
C25_EqualOrNegative ==
    pc \in {"loop", "resample", "returned"} =>
        \A x \in RandomSigns(n) : \A y \in RandomSigns(n) :
            vectors_are_parallel(x, y) <=> (x = y \/ x = Negated(y))

\* C25: vectors_are_parallel holds of two sign vectors exactly when they
\* are equal; a vector and its negative are not parallel for it. With this
\* test the exit (2) is taken only when every column of S equals a column
\* of S_old, and a column of S that is a kept column is never the equal of
\* an earlier column of S or of a column of S_old.
C25_ParallelIsEqual ==
    /\ pc \in {"loop", "resample", "returned"} =>
          \A x \in RandomSigns(n) : \A y \in RandomSigns(n) :
              vectors_are_parallel(x, y) <=> x = y
    /\ exit = "2" => \A j \in Columns : \E l \in Columns : S[j] = S_old[l]
    /\ (pc = "loop" /\ k >= 2 /\ t > 1) =>
          \A j \in Columns :
              /\ \A l \in 0..(j - 1) : S[j] # S[l]
              /\ \A l \in Columns : S[j] # S_old[l]

\* The loop went on with a column of S that is the negative of a column of
\* S_old: it was not resampled and did not count for the exit (2)
C25_Witness ==
    /\ pc = "loop" /\ k >= 3
    /\ \E j \in Columns : \E l \in Columns : S[j] = Negated(S_old[l])
    /\ \A j \in Columns : \A l \in Columns :
          ~vectors_are_parallel(S[j], S_old[l])

\* h = np.max(np.abs(Z), axis=1) for Z = AH.dot(Scur)
RowMagnitudes(Scur) ==
    [i \in Indices |-> MaxUpTo([j \in Columns |-> Abs(OpHDot(A, Scur)[j][i])], t - 1)]

\* The step selects new probe vectors (lines 283-286)
SelectsProbes == pc \in {"loop", "resample"} /\ pc' = "loop" /\ k' = k + 1

\* C26: in every iteration that selects new probe vectors the t selected
\* indices are those of largest row-magnitude of Z among the indices not in
\* ind_hist, a used index being selected only when fewer than t unused ones
\* remain, for t = 1 as for t > 1; the probes are the unit vectors of the
\* selected indices, and ind_hist grows by exactly the selected indices and
\* never shrinks.
C26_SelectsUnusedFirst ==
    [][/\ ind_hist \subseteq ind_hist'
       /\ SelectsProbes =>
             LET selected == {ind'[p] : p \in Columns}
                 unused == Indices \ ind_hist
                 h == RowMagnitudes(S')
             IN  /\ Cardinality(selected) = t
                 /\ \A j \in Columns :
                       X'[j] = [i \in Indices |->
                                   Num(elementary_vector(n, ind'[j])[i], n)]
                 /\ ind_hist' = ind_hist \cup selected
                 /\ IF Cardinality(unused) >= t
                    THEN selected \subseteq unused
                    ELSE unused \subseteq selected
                 /\ \A a \in selected \cap unused : \A b \in unused \ selected :
                       h[a] >= h[b]
                 /\ \A a \in selected \ unused : \A b \in ind_hist \ selected :
                       h[a] >= h[b]]_vars

\* The second selection with two columns out of four indices: both indices
\* selected are new ones, although an index used before has a larger
\* row-magnitude than the second of them
C26_Witness ==
    /\ pc = "loop" /\ k = 3 /\ t = 2 /\ n = 4
    /\ Cardinality(ind_hist) = 4
    /\ RowMagnitudes(S)[ind[2]] > RowMagnitudes(S)[ind[1]]
    /\ RowMagnitudes(S)[ind[0]] > RowMagnitudes(S)[ind[2]]

\* C27 as stated: the closing assertion of
\* get_preorder_conditional_likelihoods holds for both values of store_all.
C27_AssertionHolds ==
    op = "get_preorder_conditional_likelihoods" =>
        /\ tpc # "raised"
        /\ tpc = "returned" =>
              DOMAIN node_to_preorder_partials =
                  (IF store_all THEN NodesOf(scene) ELSE {scene.root})

\* C27: get_preorder_conditional_likelihoods stores an array for every node
\* and deletes none. With store_all true the closing assertion holds and the
\* returned map has the key set of all nodes; with store_all false the
\* assertion fails on every tree that has an edge, and nothing is returned.
C27_FailsWithoutStoreAll ==
    op = "get_preorder_conditional_likelihoods" =>
        /\ (tpc = "preorder" /\ pos > scene.nnodes) =>
              DOMAIN node_to_preorder_partials = NodesOf(scene)
        /\ tpc = "returned" =>
              /\ store_all
              /\ DOMAIN node_to_preorder_partials = NodesOf(scene)
        /\ tpc = "raised" =>
              /\ error = "AssertionError"
              /\ ~store_all
              /\ pos > scene.nnodes
              /\ scene.nnodes >= 2

C27_Witness ==
    /\ op = "get_preorder_conditional_likelihoods"
    /\ tpc = "raised" /\ error = "AssertionError" /\ ~store_all
    /\ scene.nnodes = 2
    /\ DOMAIN node_to_preorder_partials = {0, 1}

\* C28: on the same tree, evaluators and observations, with store_all true,
\* the array get_conditional_likelihoods holds for a node that is not the
\* root is expm_mul(rate of its upstream edge, the array
\* get_subtree_likelihoods holds for the node) for the edge's process, and
\* the two root arrays are equal; so the likelihoods distn.dot(root array)
\* are equal. The map get_subtree_likelihoods returns is the one its visits
\* build.
C28_ConditionalIsSubtreeThroughEdge ==
    /\ (op = "get_subtree_likelihoods" /\ store_all /\ tpc = "returned") =>
          node_to_array = get_subtree_likelihoods(scene)
    /\ (op = "get_conditional_likelihoods" /\ store_all
            /\ tpc \in {"postorder", "returned"}) =>
          LET subtree == get_subtree_likelihoods(scene)
          IN  /\ \A node \in DOMAIN node_to_array :
                    node_to_array[node] =
                        IF node = scene.root THEN subtree[node]
                        ELSE expm_mul(scene.edge_process[EdgeInto(scene, node)],
                                      scene.edge_rate[EdgeInto(scene, node)],
                                      subtree[node])
              /\ tpc = "returned" =>
                    /\ DOMAIN node_to_array = NodesOf(scene)
                    /\ PriorDot(scene.distn, node_to_array[scene.root]) =
                           PriorDot(scene.distn, subtree[scene.root])

C28_Witness ==
    /\ op = "get_conditional_likelihoods" /\ store_all /\ tpc = "returned"
    /\ scene.nnodes = 3
    /\ \A i \in DOMAIN scene.edges : scene.edge_rate[i] = 1
    /\ \A node \in NodesOf(scene) \ {scene.root} :
          node_to_array[node] # get_subtree_likelihoods(scene)[node]
    /\ node_to_array[scene.root] = get_subtree_likelihoods(scene)[scene.root]
    /\ \E site \in SitesOf(scene) :
          /\ RPos(PriorDot(scene.distn, node_to_array[scene.root])[site])
          /\ PriorDot(scene.distn, node_to_array[scene.root])[site] # ROne

\* C29: the marginal pass and the edge-expectation pass leave every postorder
\* array, the prior and the observations as they are (after them the
\* postorder arrays are still those the postorder pass returned); the
\* edge-expectation pass leaves every marginal array as it is; and a visit
\* of the postorder pass changes no array stored before it.
C29_PassesLeaveInputs ==
    /\ []((op = "process_json_in" /\ tpc \in {"marginal", "expect", "returned"})
            => node_to_array = get_subtree_likelihoods(scene))
    /\ [][/\ (op = "process_json_in" /\ tpc \in {"marginal", "expect"}) =>
                /\ node_to_array' = node_to_array
                /\ scene' = scene
          /\ (op = "process_json_in" /\ tpc = "expect") =>
                node_to_marginal_distn' = node_to_marginal_distn
          /\ (tpc = "marginal" /\ tpc' = "marginal") =>
                \A node \in DOMAIN node_to_marginal_distn :
                    /\ node \in DOMAIN node_to_marginal_distn'
                    /\ node_to_marginal_distn'[node] = node_to_marginal_distn[node]
          /\ (tpc = "postorder" /\ tpc' = "postorder") =>
                \A node \in DOMAIN node_to_array \cap DOMAIN node_to_array' :
                    node_to_array'[node] = node_to_array[node]]_vars

C29_Witness ==
    /\ op = "process_json_in" /\ tpc = "returned"
    /\ scene.nnodes = 3
    /\ j_out.feasibility
    /\ node_to_array = get_subtree_likelihoods(scene)
    /\ DOMAIN node_to_marginal_distn = NodesOf(scene)
    /\ \E node \in NodesOf(scene) :
          node_to_marginal_distn[node] # node_to_array[node]
    /\ \A i \in DOMAIN scene.edges : scene.edge_rate[i] = 1

\* The expectation of site along the edge listed at place i of the request,
\* from the marginal array of its head and the postorder array of its tail
ExpectationAlong(i, site) ==
    SiteExpectation(
        expm_mul(scene.edge_process[i], scene.edge_rate[i],
                 Identity(Cardinality(StatesOf(scene)))),
        FrechetK(scene.edge_process[i], scene.edge_rate[i],
                 Cardinality(StatesOf(scene))),
        node_to_marginal_distn[scene.edges[i][1]],
        node_to_array[scene.edges[i][2]], site)

\* C30: for a feasible scene the expectation pass leaves exactly one vector of
\* nsites expectations for every edge of the tree and none for the root; each
\* visit computes the vector of one edge that had none; and the response
\* lists, for every site, the expectations of the edges in the order of the
\* input edge list.
C30_OneVectorPerEdge ==
    /\ []((op = "process_json_in" /\ tpc = "expect") =>
            /\ Cardinality(DOMAIN edge_to_site_expectations) = pos - 1
            /\ DOMAIN edge_to_site_expectations \subseteq SeqRange(scene.edges))
    /\ []((op = "process_json_in" /\ tpc = "returned" /\ j_out.feasibility) =>
            /\ DOMAIN edge_to_site_expectations = SeqRange(scene.edges)
            /\ Cardinality(DOMAIN edge_to_site_expectations) = scene.nnodes - 1
            /\ \A edge \in DOMAIN edge_to_site_expectations :
                  /\ edge[2] # scene.root
                  /\ DOMAIN edge_to_site_expectations[edge] = SitesOf(scene)
            /\ DOMAIN j_out.expectations = SitesOf(scene)
            /\ \A site \in SitesOf(scene) :
                  /\ DOMAIN j_out.expectations[site] = DOMAIN scene.edges
                  /\ \A i \in DOMAIN scene.edges :
                        /\ j_out.expectations[site][i] =
                               edge_to_site_expectations[scene.edges[i]][site]
                        /\ j_out.expectations[site][i] = ExpectationAlong(i, site))
    /\ [][(op = "process_json_in" /\ tpc = "expect" /\ tpc' = "expect") =>
             \E edge \in SeqRange(scene.edges) :
                /\ edge \notin DOMAIN edge_to_site_expectations
                /\ DOMAIN edge_to_site_expectations' =
                       DOMAIN edge_to_site_expectations \cup {edge}
                /\ \A other \in DOMAIN edge_to_site_expectations :
                      edge_to_site_expectations'[other] =
                          edge_to_site_expectations[other]]_vars

\* A feasible three-node scene whose edge list is not in the order the edges
\* were visited in, and whose two edges have different expectations
C30_Witness ==
    /\ op = "process_json_in" /\ tpc = "returned"
    /\ j_out.feasibility
    /\ scene.nnodes = 3
    /\ scene.edges[1][2] = scene.ordered_nodes[1]
    /\ \E site \in SitesOf(scene) :
          /\ j_out.expectations[site][1] # j_out.expectations[site][2]
          /\ j_out.expectations[site][1] = ExpectationAlong(1, site)
          /\ RPos(j_out.expectations[site][1])

====
